---- MODULE Spec2Model ----
(***************************************************************************)
(* A model of the MakingCosmetics scraper (src/app.py): the URL            *)
(* classifier, link discovery, the variant extraction strategies, the      *)
(* product page extractor, the catalog crawler, and the HTTP endpoints     *)
(* that start a crawl (run_scrape, /scrape, /scrape_async).                *)
(*                                                                         *)
(* Strings the code inspects character by character (URLs, option texts,   *)
(* price texts, API bodies) are sequences of one-character strings, and    *)
(* the regular expressions of the code are operators over them.  Amounts   *)
(* of money (Python floats parsed from at most two decimals) are integers  *)
(* counting cents.  What lxml and json return for a page (the nodes an     *)
(* XPath query selects, the value a JSON text parses to) is the input: a   *)
(* page is a record of those query results.                                *)
(***************************************************************************)
EXTENDS Integers, Sequences, FiniteSets, TLC

VARIABLES
    pc,             \* position of scrape_all_products
    limit,          \* its argument
    all_links,      \* get_all_product_links: the hrefs of the listing page
    link_raised,    \* get_all_product_links: the loop over the hrefs raised
    link_set,       \* get_all_product_links: product_links (a set)
    list_failed,    \* the listing fetch (or the parse of its answer) raised
    classified,     \* the calls of is_product_url in this discovery
    product_links,  \* scrape_all_products: the list of links to visit
    visits,         \* the product page fetches made, with what each returned
    products,       \* self.products
    returned,       \* what scrape_all_products returned
    page,           \* the page handed to one scrape_product_details call
    result,         \* what that call returned, with its trace
    calls,          \* the calls of scrape_all_products made on the scraper
    scraping_status,\* the global scraping_status: is_running, last_full_result
    requests,       \* the HTTP requests: endpoint, position, response
    runs            \* the run_scrape execution of each request

apiVars == <<scraping_status, requests, runs>>

vars == <<pc, limit, all_links, link_raised, link_set, list_failed, classified,
          product_links, visits, products, returned, page, result, calls,
          scraping_status, requests, runs>>

crawlVars == <<pc, limit, all_links, link_raised, link_set, list_failed,
               classified, product_links, visits, products, returned, calls>>

pageVars == <<page, result>>

-----------------------------------------------------------------------------
(* Characters and substrings *)

UpperCase ==
    <<"A","B","C","D","E","F","G","H","I","J","K","L","M",
      "N","O","P","Q","R","S","T","U","V","W","X","Y","Z">>

LowerCase ==
    <<"a","b","c","d","e","f","g","h","i","j","k","l","m",
      "n","o","p","q","r","s","t","u","v","w","x","y","z">>

Digit == {"0","1","2","3","4","5","6","7","8","9"}

Range(s) == {s[k] : k \in 1..Len(s)}

UpperSet == Range(UpperCase)

LowerSet == Range(LowerCase)

\* \w of the regular expressions (ASCII)
WordChar == UpperSet \cup LowerSet \cup Digit \cup {"_"}

\* \s of the regular expressions
Space == {" ", "\t", "\n"}

\* re.IGNORECASE compares characters by their lower-case form
ToLower(c) ==
    IF c \in UpperSet
    THEN LowerCase[CHOOSE k \in 1..Len(UpperCase) : UpperCase[k] = c]
    ELSE c

\* the literal lit occurs in s at position p
HasAt(s, p, lit) ==
    /\ p >= 1
    /\ p + Len(lit) - 1 <= Len(s)
    /\ \A k \in 1..Len(lit) : s[p + k - 1] = lit[k]

\* the same under re.IGNORECASE
HasAtI(s, p, lit) ==
    /\ p >= 1
    /\ p + Len(lit) - 1 <= Len(s)
    /\ \A k \in 1..Len(lit) : ToLower(s[p + k - 1]) = ToLower(lit[k])

\* lit in s  /  re.search(re.escape(lit), s)
Contains(s, lit) == \E p \in 1..Len(s) : HasAt(s, p, lit)

\* re.search(re.escape(lit), s, re.IGNORECASE)
ContainsI(s, lit) == \E p \in 1..Len(s) : HasAtI(s, p, lit)

\* every character of s[a..b] is in the class S (a..b non-empty)
AllIn(s, a, b, S) ==
    /\ 1 <= a
    /\ a <= b
    /\ b <= Len(s)
    /\ \A k \in a..b : s[k] \in S

\* the end of the longest run of characters of class S that starts at p
\* (p - 1 when s[p] is not in S): a greedy S* from p
RunEnd(s, p, S) ==
    IF p > Len(s) \/ s[p] \notin S
    THEN p - 1
    ELSE CHOOSE e \in p..Len(s) :
            /\ \A k \in p..e : s[k] \in S
            /\ (e = Len(s) \/ s[e + 1] \notin S)

\* str.replace(old, ''): every non-overlapping occurrence, left to right
RECURSIVE RemoveAll(_, _)
RemoveAll(s, old) ==
    IF s = <<>> THEN <<>>
    ELSE IF HasAt(s, 1, old) THEN RemoveAll(SubSeq(s, Len(old) + 1, Len(s)), old)
    ELSE <<Head(s)>> \o RemoveAll(Tail(s), old)

-----------------------------------------------------------------------------
(* is_product_url *)

\* r'_ep_\d+\.html' under re.IGNORECASE
SearchEpPage(url) ==
    \E p \in 1..Len(url) :
        /\ HasAtI(url, p, <<"_","e","p","_">>)
        /\ LET e == RunEnd(url, p + 4, Digit)
           IN  /\ e >= p + 4
               /\ \E q \in (p + 4)..e : HasAtI(url, q + 1, <<".","h","t","m","l">>)

exclude_patterns(url) ==
    << SearchEpPage(url),
       ContainsI(url, <<"S","e","r","v","i","c","e","-">>),
       ContainsI(url, <<"F","o","r","m","u","l","a","s">>),
       ContainsI(url, <<"/","s","e","a","r","c","h","?">>),
       ContainsI(url, <<"c","o","n","s","u","l","t","a","t","i","o","n">>),
       ContainsI(url, <<"c","u","s","t","o","m","i","z","a","t","i","o","n">>) >>

\* r'[A-Z]{3,4}-[A-Z0-9]+-\d+\.html' matches at position p (case-sensitive)
ProductCodeAt(url, p) ==
    \E n \in {3, 4} :
        /\ AllIn(url, p, p + n - 1, UpperSet)
        /\ HasAt(url, p + n, <<"-">>)
        /\ \E q \in (p + n + 1)..Len(url) :
            /\ AllIn(url, p + n + 1, q, UpperSet \cup Digit)
            /\ HasAt(url, q + 1, <<"-">>)
            /\ \E r \in (q + 2)..Len(url) :
                /\ AllIn(url, q + 2, r, Digit)
                /\ HasAt(url, r + 1, <<".","h","t","m","l">>)

product_patterns(url) ==
    << \E p \in 1..Len(url) : ProductCodeAt(url, p),
       \E p \in 1..Len(url) : HasAt(url, p, <<"/">>) /\ ProductCodeAt(url, p + 1) >>

AnyTrue(bs) == \E k \in 1..Len(bs) : bs[k]

\* a classifier that would look at the product patterns first
is_product_url_inclusion_first(url) ==
    IF url = <<>> THEN FALSE
    ELSE IF AnyTrue(product_patterns(url)) THEN TRUE
    ELSE FALSE

is_product_url(url) ==
    IF url = <<>> THEN FALSE
    ELSE IF AnyTrue(exclude_patterns(url)) THEN FALSE
    ELSE IF AnyTrue(product_patterns(url)) THEN TRUE
    ELSE FALSE

-----------------------------------------------------------------------------
(* get_all_product_links: the pure parts *)

base_url ==
    \* https://makingcosmetics.com
    <<"h","t","t","p","s",":","/","/","m","a","k","i","n","g","c","o","s","m","e","t","i","c","s",".","c","o","m">>

\* link.replace('?lang=default', '')
normalized_link(link) ==
    RemoveAll(link, <<"?","l","a","n","g","=","d","e","f","a","u","l","t">>)

\* the network location of a link that names one ("//host/path" after an
\* optional scheme): the text between the "//" and the next "/"
netloc(link) ==
    LET from == IF HasAt(link, 1, <<"h","t","t","p","s",":","/","/">>) THEN 9
                ELSE IF HasAt(link, 1, <<"h","t","t","p",":","/","/">>) THEN 8
                ELSE IF HasAt(link, 1, <<"/","/">>) THEN 3
                ELSE 0
        to   == RunEnd(link, from, {c \in Range(link) : c # "/"})
    IN  IF from = 0 THEN <<>> ELSE SubSeq(link, from, to)

\* urljoin raises ValueError('Invalid IPv6 URL') for a network location
\* with one of "[" and "]" and not the other
urljoin_raises(link) ==
    ("[" \in Range(netloc(link))) # ("]" \in Range(netloc(link)))

\* urljoin(base, link) for a base without a path and a link without dot
\* segments, which is every link of HrefPool: an absolute link is kept, a
\* link that starts with "//" takes the scheme of the base, one that starts
\* with "/" replaces the path, any other link is a file name under the root.
urljoin(base, link) ==
    IF HasAt(link, 1, <<"h","t","t","p","s",":","/","/">>) \/ HasAt(link, 1, <<"h","t","t","p",":","/","/">>)
    THEN link
    ELSE IF HasAt(link, 1, <<"/","/">>) THEN <<"h","t","t","p","s",":">> \o link
    ELSE IF HasAt(link, 1, <<"/">>) THEN base \o link
    ELSE base \o <<"/">> \o link

\* the URL added to product_links for an accepted link
full_url(link) == urljoin(base_url, normalized_link(link))

\* the hrefs a listing page may hold
HrefProduct ==
    \* a product link carrying the noise parameter: /ABC-DEF-01.html?lang=default
    <<"/","A","B","C","-","D","E","F","-","0","1",".","h","t","m","l","?","l","a","n","g","=","d","e","f","a","u","l","t">>

HrefRelative ==
    \* the same product, as a relative link: ABC-DEF-01.html
    <<"A","B","C","-","D","E","F","-","0","1",".","h","t","m","l">>

HrefListing ==
    \* a paginated listing page: /Ingredients-A-Z_ep_2.html?lang=default
    <<"/","I","n","g","r","e","d","i","e","n","t","s","-","A","-","Z","_","e","p","_","2",".","h","t","m","l","?","l","a","n","g","=","d","e","f","a","u","l","t">>

HrefService ==
    \* a service page whose name also holds a product code: /Service-ABC-DEF-01.html
    <<"/","S","e","r","v","i","c","e","-","A","B","C","-","D","E","F","-","0","1",".","h","t","m","l">>

HrefLowerCode ==
    \* a lower-case code: no product pattern matches: /abc-def-01.html
    <<"/","a","b","c","-","d","e","f","-","0","1",".","h","t","m","l">>

HrefAbsolute ==
    \* an absolute product link: https://makingcosmetics.com/WXYZ-A1-2.html
    <<"h","t","t","p","s",":","/","/","m","a","k","i","n","g","c","o","s","m","e","t","i","c","s",".","c","o","m","/","W","X","Y","Z","-","A","1","-","2",".","h","t","m","l">>

HrefSplitWord ==
    \* the noise parameter splits the word Service-: /Serv?lang=defaultice-/GHI-J-3.html
    <<"/","S","e","r","v","?","l","a","n","g","=","d","e","f","a","u","l","t","i","c","e","-","/","G","H","I","-","J","-","3",".","h","t","m","l">>

HrefFormulas ==
    \* a formula page, in upper case: /FORMULAS/ABCD-X-1.html
    <<"/","F","O","R","M","U","L","A","S","/","A","B","C","D","-","X","-","1",".","h","t","m","l">>

HrefShortCode ==
    \* a two-letter code: no product pattern matches: /AB-DEF-01.html
    <<"/","A","B","-","D","E","F","-","0","1",".","h","t","m","l">>

HrefBadNetloc ==
    \* a product link urljoin cannot resolve: //[/ABC-DEF-01.html
    <<"/","/","[","/","A","B","C","-","D","E","F","-","0","1",".","h","t","m","l">>

HrefEmpty == <<>>

HrefPool ==
    {HrefProduct, HrefRelative, HrefListing, HrefService, HrefLowerCode, HrefAbsolute, HrefSplitWord, HrefFormulas, HrefShortCode, HrefBadNetloc, HrefEmpty}

-----------------------------------------------------------------------------
(* Amounts: float(...) of a captured text and f'${value:.2f}' *)

DigitSeq == <<"0","1","2","3","4","5","6","7","8","9">>

DigitVal(c) == (CHOOSE k \in 1..Len(DigitSeq) : DigitSeq[k] = c) - 1

\* the number a string of digits writes (0 for the empty string)
RECURSIVE NatOf(_)
NatOf(s) ==
    IF s = <<>> THEN 0
    ELSE 10 * NatOf(SubSeq(s, 1, Len(s) - 1)) + DigitVal(s[Len(s)])

\* str(n) for n >= 0
RECURSIVE NatStr(_)
NatStr(n) ==
    IF n < 10 THEN <<DigitSeq[n + 1]>>
    ELSE NatStr(n \div 10) \o <<DigitSeq[(n % 10) + 1]>>

\* float(s): the value in cents, or ValueError.  The texts of the model have
\* the form [-]digits[.digits] with at most two decimals (no exponent, no
\* blanks, no inf/nan); every other text here is one float() rejects.
float(s) ==
    LET neg   == HasAt(s, 1, <<"-">>)
        body  == IF neg THEN Tail(s) ELSE s
        e1    == RunEnd(body, 1, Digit)
        dot   == HasAt(body, e1 + 1, <<".">>)
        e2    == IF dot THEN RunEnd(body, e1 + 2, Digit) ELSE e1
        int   == SubSeq(body, 1, e1)
        frac  == IF dot THEN SubSeq(body, e1 + 2, e2) ELSE <<>>
        wellFormed ==
            /\ e2 = Len(body)
            /\ Len(int) + Len(frac) >= 1
            /\ Len(frac) <= 2
        cents == 100 * NatOf(int)
                 + (IF Len(frac) = 1 THEN 10 * NatOf(frac) ELSE NatOf(frac))
    IN  IF wellFormed
        THEN [ValueError |-> FALSE, cents |-> IF neg THEN 0 - cents ELSE cents]
        ELSE [ValueError |-> TRUE, cents |-> 0]

\* f'${value:.2f}' for a value given in cents
FormatPrice(cents) ==
    LET a == IF cents < 0 THEN 0 - cents ELSE cents
    IN  <<"$">> \o (IF cents < 0 THEN <<"-">> ELSE <<>>)
        \o NatStr(a \div 100) \o <<".">>
        \o <<DigitSeq[((a % 100) \div 10) + 1], DigitSeq[(a % 10) + 1]>>

\* s.replace(',', '')
StripCommas(s) == RemoveAll(s, <<",">>)

\* s.strip()
RECURSIVE Strip(_)
Strip(s) ==
    IF s = <<>> THEN s
    ELSE IF s[1] \in Space THEN Strip(Tail(s))
    ELSE IF s[Len(s)] \in Space THEN Strip(SubSeq(s, 1, Len(s) - 1))
    ELSE s

\* re.sub(r'\s+', ' ', s)
RECURSIVE CollapseSpaces(_)
CollapseSpaces(s) ==
    IF s = <<>> THEN s
    ELSE IF s[1] \in Space
    THEN <<" ">> \o CollapseSpaces(SubSeq(s, RunEnd(s, 1, Space) + 1, Len(s)))
    ELSE <<s[1]>> \o CollapseSpaces(Tail(s))

\* a price that is absent: None.  The code only ever tests a price for
\* truth, and None and '' are both false.
NoPrice == <<>>

-----------------------------------------------------------------------------
(* The regular expressions for amounts.  A search result is                *)
(* [found, group]: whether the pattern matched and its group(1).           *)

NoMatch == [found |-> FALSE, group |-> <<>>]

AmountClass == Digit \cup {","}

\* the end of a match of [\d,]+\.\d{2} (decimals = "required") or of
\* [\d,]+(?:\.\d{2})? (decimals = "optional") that starts at p; 0 if none
AmountEnd(s, p, decimals) ==
    LET e      == RunEnd(s, p, AmountClass)
        hasDec == HasAt(s, e + 1, <<".">>) /\ AllIn(s, e + 2, e + 3, Digit)
    IN  IF p < 1 \/ e < p THEN 0
        ELSE IF hasDec THEN e + 3
        ELSE IF decimals = "optional" THEN e
        ELSE 0

\* the least element of a non-empty set of positions
Least(S) == CHOOSE p \in S : \A q \in S : p <= q

\* re.search(r'\$([\d,]+\.\d{2})', s)  and  r'\$([\d,]+(?:\.\d{2})?)'
SearchDollarAmount(s, decimals) ==
    LET starts == {p \in 1..Len(s) :
                      s[p] = "$" /\ AmountEnd(s, p + 1, decimals) # 0}
    IN  IF starts = {} THEN NoMatch
        ELSE LET p == Least(starts)
             IN  [found |-> TRUE,
                  group |-> SubSeq(s, p + 1, AmountEnd(s, p + 1, decimals))]

\* re.search(r'([\d,]+\.\d{2})', s)  and  r'([\d,]+(?:\.\d{2})?)'
SearchAmount(s, decimals) ==
    LET starts == {p \in 1..Len(s) : AmountEnd(s, p, decimals) # 0}
    IN  IF starts = {} THEN NoMatch
        ELSE LET p == Least(starts)
             IN  [found |-> TRUE,
                  group |-> SubSeq(s, p, AmountEnd(s, p, decimals))]

\* re.search(r'\(\+\s*\$([\d,]+\.\d{2})\)', s)
SearchDelta(s) ==
    LET dollar(p) == RunEnd(s, p + 2, Space) + 1
        ok(p) == /\ HasAt(s, p, <<"(", "+">>)
                 /\ HasAt(s, dollar(p), <<"$">>)
                 /\ AmountEnd(s, dollar(p) + 1, "required") # 0
                 /\ HasAt(s, AmountEnd(s, dollar(p) + 1, "required") + 1, <<")">>)
        starts == {p \in 1..Len(s) : ok(p)}
    IN  IF starts = {} THEN NoMatch
        ELSE LET p == Least(starts)
             IN  [found |-> TRUE,
                  group |-> SubSeq(s, dollar(p) + 1,
                                   AmountEnd(s, dollar(p) + 1, "required"))]

\* re.search(r'\[\+?\$([\d,]+(?:\.\d{2})?)\]', s)
SearchBracket(s) ==
    LET dollar(p) == IF HasAt(s, p + 1, <<"+">>) THEN p + 2 ELSE p + 1
        ok(p) == /\ HasAt(s, p, <<"[">>)
                 /\ HasAt(s, dollar(p), <<"$">>)
                 /\ \E d \in {"required", "optional"} :
                       /\ AmountEnd(s, dollar(p) + 1, d) # 0
                       /\ HasAt(s, AmountEnd(s, dollar(p) + 1, d) + 1, <<"]">>)
        endOf(p) == IF /\ AmountEnd(s, dollar(p) + 1, "required") # 0
                       /\ HasAt(s, AmountEnd(s, dollar(p) + 1, "required") + 1, <<"]">>)
                    THEN AmountEnd(s, dollar(p) + 1, "required")
                    ELSE RunEnd(s, dollar(p) + 1, AmountClass)
        starts == {p \in 1..Len(s) : ok(p)}
    IN  IF starts = {} THEN NoMatch
        ELSE LET p == Least(starts)
             IN  [found |-> TRUE, group |-> SubSeq(s, dollar(p) + 1, endOf(p))]

-----------------------------------------------------------------------------
\* The size pattern shared by the strategies, under re.IGNORECASE:
\*   r'\b\d+(?:\.\d+)?\s*(?:fl\s*)?(?:oz|g|ml|kg|lb|gram|liter|L)\b'

size_units ==
    << <<"o","z">>, <<"g">>, <<"m","l">>, <<"k","g">>, <<"l","b">>,
       <<"g","r","a","m">>, <<"l","i","t","e","r">>, <<"L">> >>

\* \b between s[p-1] and s[p]
WordBoundary(s, p) ==
    LET before == p >= 2 /\ p - 1 <= Len(s) /\ s[p - 1] \in WordChar
        after  == p >= 1 /\ p <= Len(s) /\ s[p] \in WordChar
    IN  before # after

\* the end of the match of a unit alternative at position p followed by \b;
\* 0 if no alternative matches
UnitEnd(s, p, units) ==
    LET hits == {k \in 1..Len(units) :
                    /\ HasAtI(s, p, units[k])
                    /\ WordBoundary(s, p + Len(units[k]))}
    IN  IF hits = {} THEN 0 ELSE p + Len(units[Least(hits)]) - 1

\* the end of the match of the size pattern that starts at p; 0 if none
SizeMatchEnd(s, p) ==
    IF ~(p >= 1 /\ p <= Len(s) /\ s[p] \in Digit /\ WordBoundary(s, p)) THEN 0
    ELSE
    LET d1 == RunEnd(s, p, Digit)
        d2 == IF HasAt(s, d1 + 1, <<".">>) /\ AllIn(s, d1 + 2, d1 + 2, Digit)
              THEN RunEnd(s, d1 + 2, Digit) ELSE d1
        sp == RunEnd(s, d2 + 1, Space)
        fl == IF HasAtI(s, sp + 1, <<"f","l">>)
              THEN RunEnd(s, sp + 3, Space) ELSE sp
    IN  UnitEnd(s, fl + 1, size_units)

\* re.findall(size_pattern, s, re.IGNORECASE)[0], with found = FALSE when
\* findall returns the empty list
size_matches(s) ==
    LET starts == {p \in 1..Len(s) : SizeMatchEnd(s, p) # 0}
    IN  IF starts = {} THEN NoMatch
        ELSE LET p == Least(starts)
             IN  [found |-> TRUE, group |-> SubSeq(s, p, SizeMatchEnd(s, p))]

\* re.sub(r'\s+', ' ', size_matches[0].strip()) if size_matches else None
\* (an absent size is the empty text: the code only tests a size for truth)
normalized_size(s) ==
    IF size_matches(s).found
    THEN CollapseSpaces(Strip(size_matches(s).group))
    ELSE <<>>

-----------------------------------------------------------------------------
(* call_product_variation_api *)

\* What the GET of a variation URL gives:
\*   status     "request_error" when session.get or raise_for_status raises
\*   text       response.text
\*   json       what response.json() does with it: "invalid" (JSONDecodeError),
\*              "formatted" (an object holding product.price.sales.formatted),
\*              "object" (an object without that path), "scalar" (a number:
\*              the test 'product' in json_data raises TypeError)
\*   formatted  the value at product.price.sales.formatted

\* the end of a match of "formatted"\s*:\s*"([^"]+)" that starts at q, and
\* its group; 0 if none
FormattedGroupStart(s, q) ==
    RunEnd(s, RunEnd(s, q + 11, Space) + 2, Space) + 2

FormattedGroupEnd(s, q) ==
    LET colon == RunEnd(s, q + 11, Space) + 1
        quote == RunEnd(s, colon + 1, Space) + 1
        g     == quote + 1
        e     == RunEnd(s, g, {c \in Range(s) : c # "\""})
    IN  IF /\ HasAt(s, q, <<"\"","f","o","r","m","a","t","t","e","d","\"">>)
           /\ HasAt(s, colon, <<":">>)
           /\ HasAt(s, quote, <<"\"">>)
           /\ e >= g
           /\ HasAt(s, e + 1, <<"\"">>)
        THEN e ELSE 0

\* re.search(key + r'[^}]*"formatted"\s*:\s*"([^"]+)"', s) for key '"price"'
\* or '"sales"': the leftmost key, then the last "formatted" that no "}"
\* separates from it
SearchFormatted(s, key) ==
    LET reach(p) == {q \in (p + Len(key))..Len(s) :
                        /\ FormattedGroupEnd(s, q) # 0
                        /\ \A k \in (p + Len(key))..(q - 1) : s[k] # "}"}
        starts == {p \in 1..Len(s) : HasAt(s, p, key) /\ reach(p) # {}}
    IN  IF starts = {} THEN NoMatch
        ELSE LET p == Least(starts)
                 q == CHOOSE q \in reach(p) : \A r \in reach(p) : r <= q
             IN  [found |-> TRUE,
                  group |-> SubSeq(s, FormattedGroupStart(s, q),
                                   FormattedGroupEnd(s, q))]

\* re.search(r'"value"\s*:\s*([\d,]+(?:\.\d{2})?)', s)
SearchValue(s) ==
    LET amount(p) == RunEnd(s, RunEnd(s, p + 7, Space) + 2, Space) + 1
        ok(p) == /\ HasAt(s, p, <<"\"","v","a","l","u","e","\"">>)
                 /\ HasAt(s, RunEnd(s, p + 7, Space) + 1, <<":">>)
                 /\ AmountEnd(s, amount(p), "optional") # 0
        starts == {p \in 1..Len(s) : ok(p)}
    IN  IF starts = {} THEN NoMatch
        ELSE LET p == Least(starts)
             IN  [found |-> TRUE,
                  group |-> SubSeq(s, amount(p),
                                   AmountEnd(s, amount(p), "optional"))]

\* [re.search(pattern, response.text) for pattern in price_patterns]
price_patterns(text) ==
    << SearchFormatted(text, <<"\"","p","r","i","c","e","\"">>),
       SearchFormatted(text, <<"\"","s","a","l","e","s","\"">>),
       SearchDollarAmount(text, "optional"),
       SearchValue(text) >>

\* the loop over price_patterns, from pattern k on
RECURSIVE PricePatternLoop(_, _)
PricePatternLoop(matches, k) ==
    IF k > Len(matches) THEN NoPrice
    ELSE IF ~matches[k].found THEN PricePatternLoop(matches, k + 1)
    ELSE LET price_str == matches[k].group
             price_val == float(StripCommas(price_str))
         IN  IF ~Contains(price_str, <<"$">>)
             THEN IF price_val.ValueError
                  THEN PricePatternLoop(matches, k + 1)
                  ELSE FormatPrice(price_val.cents)
             ELSE price_str

call_product_variation_api(response) ==
    IF response.status = "request_error" THEN NoPrice
    ELSE IF response.text = <<>> THEN NoPrice
    ELSE IF response.json = "formatted" THEN response.formatted
    ELSE IF response.json = "scalar" THEN NoPrice
    ELSE PricePatternLoop(price_patterns(response.text), 1)

-----------------------------------------------------------------------------
(* extract_variants_from_options *)

Variant(size, price, source) ==
    [size |-> size, price |-> price, source |-> source]

\* What one step of a scan gives: the variants it appends (none or one), or
\* raised = TRUE when it raises, which ends the scan's try block.
Appends(variants) == [raised |-> FALSE, variants |-> variants]

Raises == [raised |-> TRUE, variants |-> <<>>]

\* a try block that would discard what the loop collected when a step raises
RECURSIVE ScanLoop_discarding(_, _)
ScanLoop_discarding(steps, k) ==
    IF \E j \in 1..Len(steps) : steps[j].raised THEN <<>>
    ELSE IF k > Len(steps) THEN <<>>
    ELSE steps[k].variants \o ScanLoop_discarding(steps, k + 1)

\* a for loop inside a try block: the variants collected until the loop ends
\* or a step raises
RECURSIVE ScanLoop(_, _)
ScanLoop(steps, k) ==
    IF k > Len(steps) \/ steps[k].raised THEN <<>>
    ELSE steps[k].variants \o ScanLoop(steps, k + 1)

\* some step of the loop raises
ScanRaised(steps) == \E k \in 1..Len(steps) : steps[k].raised

\* the base price: the first $D.DD in the texts of the price elements
\* (found = FALSE when base_price stays None)
RECURSIVE base_price(_)
base_price(base_price_elem) ==
    IF base_price_elem = <<>> THEN [found |-> FALSE, cents |-> 0]
    ELSE LET price_match == SearchDollarAmount(Head(base_price_elem), "required")
         IN  IF price_match.found
             THEN [found |-> TRUE,
                   cents |-> float(StripCommas(price_match.group)).cents]
             ELSE base_price(Tail(base_price_elem))

placeholder_texts ==
    { <<>>,
      \* Choose Options
      <<"C","h","o","o","s","e"," ","O","p","t","i","o","n","s">>,
      \* Select Option
      <<"S","e","l","e","c","t"," ","O","p","t","i","o","n">>,
      \* Select Size
      <<"S","e","l","e","c","t"," ","S","i","z","e">> }

\* the size of a select option: the full option text when it holds a size
\* token or the letters of a unit, else absent
option_size(option_text) ==
    IF size_matches(option_text).found THEN Strip(option_text)
    ELSE IF \E unit \in { <<"o","z">>, <<"m","l">>, <<"g">>, <<"k","g">>, <<"l","b">> } :
                ContainsI(option_text, unit)
    THEN Strip(option_text)
    ELSE <<>>

\* variation_url and 'Product-Variation' in variation_url
is_variation_url(variation_url) ==
    /\ variation_url # <<>>
    /\ Contains(variation_url,
                <<"P","r","o","d","u","c","t","-","V","a","r","i","a","t","i","o","n">>)

\* Method 1: the Product-Variation API
price_from_api(option) ==
    IF is_variation_url(option.value)
    THEN call_product_variation_api(option.api)
    ELSE NoPrice

\* Method 2: the data-price attribute.  [raised, price]: float('') raises
\* ValueError when the attribute holds commas only.
price_from_data(data_price) ==
    LET price_match == SearchAmount(data_price, "optional")
        price_val   == float(StripCommas(price_match.group))
    IN  IF data_price = <<>> \/ ~price_match.found
        THEN [raised |-> FALSE, price |-> NoPrice]
        ELSE IF price_val.ValueError
        THEN [raised |-> TRUE, price |-> NoPrice]
        ELSE [raised |-> FALSE, price |-> FormatPrice(price_val.cents)]

\* Method 3: the base price plus the delta "(+$D.DD)" of the option text, or
\* the base price when the text has no parenthesis
price_from_delta(option_text, base) ==
    LET delta_match == SearchDelta(option_text)
    IN  IF ~(base.found /\ base.cents # 0) THEN NoPrice
        ELSE IF delta_match.found
        THEN FormatPrice(base.cents + float(StripCommas(delta_match.group)).cents)
        ELSE IF ~Contains(option_text, <<"(">>) THEN FormatPrice(base.cents)
        ELSE NoPrice

\* Method 4 (and the label and list-item prices): a "$" amount in a text
price_from_text(text) ==
    LET price_match == SearchDollarAmount(text, "optional")
        price_str   == StripCommas(price_match.group)
        price_val   == IF Contains(price_str, <<".">>)
                       THEN float(price_str)
                       ELSE float(price_str \o <<".","0","0">>)
    IN  IF price_match.found THEN FormatPrice(price_val.cents) ELSE NoPrice

\* price or other: the first of the two that is a price
Either(price, other) == IF price = NoPrice THEN other ELSE price

\* The price of a size-bearing option, given what each method finds: the
\* first method that gives one.  Method 2 is reached, and may raise, only
\* when method 1 gives none.
first_method(p1, p2, p3, p4) ==
    [raised |-> p1 = NoPrice /\ p2.raised,
     price  |-> Either(p1, Either(p2.price, Either(p3, p4)))]

option_price(option, option_text, base) ==
    first_method(price_from_api(option),
                 price_from_data(option.data_price),
                 price_from_delta(option_text, base),
                 price_from_text(option_text))

option_source(option) ==
    IF is_variation_url(option.value) THEN "dynamic_api" ELSE "option_data"

\* a step that would add the variant of an option whose text holds no size
option_step_sizeless(option_text, size, priced, source) ==
    IF option_text \in placeholder_texts THEN Appends(<<>>)
    ELSE IF priced.raised THEN Raises
    ELSE Appends(<<Variant(size, priced.price, source)>>)

\* the step of an option with text option_text, given its size and price
option_step(option_text, size, priced, source) ==
    IF option_text \in placeholder_texts THEN Appends(<<>>)
    ELSE IF size = <<>> THEN Appends(<<>>)
    ELSE IF priced.raised THEN Raises
    ELSE Appends(<<Variant(size, priced.price, source)>>)

\* the price of the option whose stripped text is option_text
stripped_option_step(option, option_text, base) ==
    option_step(option_text, option_size(option_text),
                option_price(option, option_text, base), option_source(option))

\* one iteration of the loop over the select options
select_option_step(option, base) ==
    stripped_option_step(option, Strip(option.text), base)

\* the iterations of the loop over the select options
select_steps(pg) ==
    [k \in 1..Len(pg.options) |->
        select_option_step(pg.options[k], base_price(pg.base_price_elem))]

\* the first try block: the select options
select_variants(pg) == ScanLoop(select_steps(pg), 1)

\* radio.get('data-price') or radio.get('data-price-diff') or
\* radio.get('data-calcprice')
radio_data_price(radio) ==
    IF radio.data_price # <<>> THEN radio.data_price
    ELSE IF radio.data_price_diff # <<>> THEN radio.data_price_diff
    ELSE radio.data_calcprice

\* the step of a radio input, given the size and the two prices of its label
label_step(has_label, size, from_data, from_text) ==
    IF ~has_label THEN Appends(<<>>)
    ELSE IF from_data.raised THEN Raises
    ELSE IF size = <<>> THEN Appends(<<>>)
    ELSE Appends(<<Variant(size, Either(from_data.price, from_text),
                           "radio_option")>>)

\* the step of a radio input whose stripped label text is label_text
stripped_label_step(radio, label_text) ==
    label_step(radio.has_label, normalized_size(label_text),
               price_from_data(radio_data_price(radio)),
               price_from_text(label_text))

\* one iteration of the loop over the radio inputs
radio_step(radio) == stripped_label_step(radio, Strip(radio.label_text))

\* the bracketed price [+$D.DD] of a list item
price_from_bracket(text) ==
    LET bracket_match == SearchBracket(text)
        price_str     == StripCommas(bracket_match.group)
        price_val     == IF Contains(price_str, <<".">>)
                         THEN float(price_str)
                         ELSE float(price_str \o <<".","0","0">>)
    IN  IF bracket_match.found THEN FormatPrice(price_val.cents) ELSE NoPrice

\* the step of a list item, given its size and price
item_step(size, price) ==
    IF size = <<>> THEN Appends(<<>>)
    ELSE Appends(<<Variant(size, price, "ul_option")>>)

\* the step of the list item whose stripped text is li_text
stripped_li_step(li_text) ==
    item_step(normalized_size(li_text),
              Either(price_from_text(li_text), price_from_bracket(li_text)))

\* one iteration of the loop over the items of the option lists
li_step(li) == stripped_li_step(Strip(li))

\* the items of all option lists, in document order
RECURSIVE Flatten(_)
Flatten(lists) ==
    IF lists = <<>> THEN <<>> ELSE Head(lists) \o Flatten(Tail(lists))

\* the steps of the loop over the items li_elements
li_steps(li_elements) ==
    [k \in 1..Len(li_elements) |-> li_step(li_elements[k])]

\* the iterations of the loop over the radio inputs, then of the loop over
\* the items of the option lists
radio_ul_steps(pg) ==
    [k \in 1..Len(pg.radio_options) |-> radio_step(pg.radio_options[k])]
        \o li_steps(Flatten(pg.option_lists))

\* the second try block: the radio inputs, then the option lists
radio_ul_variants(pg) == ScanLoop(radio_ul_steps(pg), 1)

extract_variants_from_options(pg) ==
    select_variants(pg) \o radio_ul_variants(pg)

-----------------------------------------------------------------------------
(* extract_variants_from_json_ld *)

\* A price value of a JSON document: kind "absent" (no such key, or null),
\* "number" (cents), "string" (text) or "other" (a list or an object).
price_truthy(price) ==
    \/ price.kind = "number" /\ price.cents # 0
    \/ price.kind = "string" /\ price.text # <<>>
    \/ price.kind = "other"

\* float(price) of an offer: [ValueError, cents].  float() of a list or an
\* object raises TypeError, which the same except clause catches.
offer_price_value(price) ==
    IF price.kind = "number" THEN [ValueError |-> FALSE, cents |-> price.cents]
    ELSE IF price.kind = "string" THEN float(price.text)
    ELSE [ValueError |-> TRUE, cents |-> 0]

\* the size of an offer: the first of its description, name and sku (those
\* present, in this order) that holds a size token
RECURSIVE first_size(_)
first_size(texts) ==
    IF texts = <<>> THEN <<>>
    ELSE IF size_matches(Head(texts)).found THEN normalized_size(Head(texts))
    ELSE first_size(Tail(texts))

\* the step of an offer, given its size and the float of its price
priced_offer_step(size, price, value) ==
    IF size = <<>> \/ ~price_truthy(price) THEN Appends(<<>>)
    ELSE IF value.ValueError THEN Raises
    ELSE Appends(<<Variant(size, FormatPrice(value.cents), "json_ld")>>)

offer_step(offer) ==
    priced_offer_step(first_size(offer.texts), offer.price,
                      offer_price_value(offer.price))

\* the steps of one item of a script: an item that is no object raises
\* (item.get), an item that is no Product or has no offers gives nothing
item_steps(item) ==
    IF item.kind # "dict" THEN <<Raises>>
    ELSE IF item.type # "Product" \/ ~item.has_offers THEN <<>>
    ELSE [k \in 1..Len(item.offers) |-> offer_step(item.offers[k])]

\* the steps of one script: a script json.loads rejects is skipped
script_steps(script) ==
    IF ~script.valid THEN <<>>
    ELSE Flatten([k \in 1..Len(script.items) |-> item_steps(script.items[k])])

\* the iterations of the loops over the scripts, their items and offers
json_ld_steps(pg) ==
    Flatten([k \in 1..Len(pg.json_scripts) |-> script_steps(pg.json_scripts[k])])

extract_variants_from_json_ld(pg) == ScanLoop(json_ld_steps(pg), 1)

-----------------------------------------------------------------------------
(* extract_variants_from_inline_json *)

\* the price text a match of D.DD gives
matched_price(price_match) ==
    IF price_match.found
    THEN FormatPrice(float(StripCommas(price_match.group)).cents)
    ELSE NoPrice

\* the price one value gives: a number, or a string holding D.DD
entry_price(price_val) ==
    IF price_val.kind = "number" THEN FormatPrice(price_val.cents)
    ELSE IF price_val.kind = "string"
    THEN matched_price(SearchAmount(price_val.text, "required"))
    ELSE NoPrice

\* the price of an entry: the first of its price, price_min and price_max
\* (those present, in this order) that is a number or a string holding D.DD
RECURSIVE first_price(_)
first_price(prices) ==
    IF prices = <<>> THEN NoPrice
    ELSE Either(entry_price(Head(prices)), first_price(Tail(prices)))

\* one entry of a variants array: kind "dict" (an object), "skipped" (a
\* string that holds no field name: every test `field in variant_data` is
\* false) or "raises" (a number, or a string that holds a field name: the
\* test or the lookup raises TypeError)
entry_step(kind, size, price) ==
    IF kind = "raises" THEN Raises
    ELSE IF kind = "skipped" THEN Appends(<<>>)
    ELSE IF size = <<>> \/ price = NoPrice THEN Appends(<<>>)
    ELSE Appends(<<Variant(size, price, "inline_json")>>)

variant_data_step(variant_data) ==
    entry_step(variant_data.kind, first_size(variant_data.texts),
               first_price(variant_data.prices))

\* one regex match of the response text: skipped when json.loads rejects it
\* or when it is an object without "variants" and "options"
match_steps(match) ==
    IF ~match.valid \/ match.shape = "other" THEN <<>>
    ELSE [k \in 1..Len(match.variants_data) |->
             variant_data_step(match.variants_data[k])]

\* the iterations of the loops over the matches and their entries
inline_json_steps(pg) ==
    Flatten([k \in 1..Len(pg.inline_matches) |-> match_steps(pg.inline_matches[k])])

extract_variants_from_inline_json(pg) == ScanLoop(inline_json_steps(pg), 1)

-----------------------------------------------------------------------------
(* extract_variants_from_tables *)

\* the step of a row with at least two cells, given its size and price
cells_step(size, price) ==
    IF size = <<>> \/ price = NoPrice THEN Appends(<<>>)
    ELSE Appends(<<Variant(size, price, "table")>>)

row_step(cells) ==
    IF Len(cells) < 2 THEN Appends(<<>>)
    ELSE cells_step(normalized_size(Strip(cells[1])),
                    matched_price(SearchDollarAmount(Strip(cells[2]), "required")))

\* a table counts when its header text holds both "size" and "price"
table_steps(table) ==
    IF /\ ContainsI(table.header_text, <<"s","i","z","e">>)
       /\ ContainsI(table.header_text, <<"p","r","i","c","e">>)
    THEN [k \in 1..Len(table.rows) |-> row_step(table.rows[k])]
    ELSE <<>>

\* the iterations of the loops over the tables and their rows
tables_steps(pg) ==
    Flatten([k \in 1..Len(pg.tables) |-> table_steps(pg.tables[k])])

extract_variants_from_tables(pg) == ScanLoop(tables_steps(pg), 1)

-----------------------------------------------------------------------------
(* extract_variants_from_proximity *)

\* the price found near an element: the first $D.DD in the texts of the
\* elements searched
RECURSIVE nearby_price(_)
nearby_price(search_texts) ==
    IF search_texts = <<>> THEN NoPrice
    ELSE Either(matched_price(SearchDollarAmount(Head(search_texts), "required")),
                nearby_price(Tail(search_texts)))

\* the variants an element gives: one, when it has a size and a price
element_variants(size, price) ==
    IF size # <<>> /\ price # NoPrice
    THEN <<Variant(size, price, "proximity")>> ELSE <<>>

\* the loop over the text elements: it ends at the first element that gives
\* a size with a price
RECURSIVE proximity_loop(_)
first_found(variants, elements) ==
    IF variants # <<>> THEN variants ELSE proximity_loop(elements)

proximity_loop(elements) ==
    IF elements = <<>> THEN <<>>
    ELSE first_found(element_variants(normalized_size(Head(elements).text),
                                      nearby_price(Head(elements).search_texts)),
                     Tail(elements))

extract_variants_from_proximity(pg) ==
    proximity_loop(pg.text_elements)

-----------------------------------------------------------------------------
(* scrape_product_details *)

\* a dict: a function from its keys to their values
EmptyDict == [k \in {} |-> <<>>]

\* d[key] = value
Put(d, key, value) ==
    [k \in DOMAIN d \cup {key} |-> IF k = key THEN value ELSE d[k]]

\* sep.join(texts)
RECURSIVE Join(_, _)
Join(sep, texts) ==
    IF texts = <<>> THEN <<>>
    ELSE IF Len(texts) = 1 THEN texts[1]
    ELSE texts[1] \o sep \o Join(sep, Tail(texts))

\* list(a_set): Python does not specify the order; the model fixes one
RECURSIVE ListOf(_)
ListOf(S) ==
    IF S = {} THEN <<>>
    ELSE LET x == CHOOSE x \in S : TRUE IN <<x>> \o ListOf(S \ {x})

\* the product record as created
NewProduct ==
    [name |-> <<>>, sizes |-> <<>>, prices |-> EmptyDict,
     price_info |-> <<>>, price_sources |-> {}]

\* ' '.join([n.strip() for n in names if n.strip()]) for the text nodes of
\* the first name selector that selects any (absent: the name stays '')
product_name(names) ==
    Join(<<" ">>, SelectSeq([k \in 1..Len(names) |-> Strip(names[k])],
                            LAMBDA n : n # <<>>))

\* The five strategies in the order of the calls.  The first is always
\* called, each other one only while all_variants is empty.
strategy_names ==
    <<"options", "json_ld", "inline_json", "tables", "proximity">>

strategy_output(pg, k) ==
    CASE k = 1 -> extract_variants_from_options(pg)
      [] k = 2 -> extract_variants_from_json_ld(pg)
      [] k = 3 -> extract_variants_from_inline_json(pg)
      [] k = 4 -> extract_variants_from_tables(pg)
      [] k = 5 -> extract_variants_from_proximity(pg)

\* a chain that would call every strategy whatever the earlier ones returned
strategy_called_always(k, all_variants) == TRUE

\* strategy k is called, given the variants collected by those before it
strategy_called(k, all_variants) == k = 1 \/ all_variants = <<>>

\* the run after the strategy called name returned output
ran(run, name, output) ==
    [all_variants |-> run.all_variants \o output,
     called       |-> Append(run.called, name),
     outputs      |-> Append(run.outputs, output)]

\* the chain from strategy k on; called lists the strategies that ran and
\* outputs what each of them returned
RECURSIVE strategy_chain(_, _, _)
strategy_chain(pg, k, run) ==
    IF k > Len(strategy_names) THEN run
    ELSE IF strategy_called(k, run.all_variants)
    THEN strategy_chain(pg, k + 1, ran(run, strategy_names[k], strategy_output(pg, k)))
    ELSE strategy_chain(pg, k + 1, run)

\* a consolidation in which the first price of a size would stay
RECURSIVE consolidate_first_wins(_, _)
consolidate_first_wins(product, variants) ==
    IF variants = <<>> THEN product
    ELSE LET variant == Head(variants)
             priced  == /\ variant.price # NoPrice
                        /\ variant.size \notin DOMAIN product.prices
         IN  consolidate_first_wins(
                [product EXCEPT
                    !.sizes = IF /\ variant.size # <<>>
                                 /\ variant.size \notin Range(product.sizes)
                              THEN Append(product.sizes, variant.size)
                              ELSE product.sizes,
                    !.prices = IF priced
                               THEN Put(product.prices, variant.size, variant.price)
                               ELSE product.prices,
                    !.price_sources = IF priced
                                      THEN product.price_sources \cup {variant.source}
                                      ELSE product.price_sources],
                Tail(variants))

\* the loop that processes the variants into the product
RECURSIVE consolidate(_, _)
consolidate(product, variants) ==
    IF variants = <<>> THEN product
    ELSE LET variant == Head(variants)
             sizes   == IF /\ variant.size # <<>>
                           /\ variant.size \notin Range(product.sizes)
                        THEN Append(product.sizes, variant.size)
                        ELSE product.sizes
             priced  == variant.price # NoPrice
         IN  consolidate(
                [product EXCEPT
                    !.sizes = sizes,
                    !.prices = IF priced
                               THEN Put(product.prices, variant.size, variant.price)
                               ELSE product.prices,
                    !.price_sources = IF priced
                                      THEN product.price_sources \cup {variant.source}
                                      ELSE product.price_sources],
                Tail(variants))

\* ' | '.join(list(set(product['prices'].values()))), '' for no prices
price_info(prices) ==
    Join(<<" ", "|", " ">>, ListOf({prices[k] : k \in DOMAIN prices}))

\* The text-mining fallback.  Each pattern is
\*   r'\b\d+\.?\d*\s*(' + units + r')\b'   under re.IGNORECASE
\* and the last family allows blanks inside the unit.
fallback_units ==
    << << <<"o","z">>, <<"o","u","n","c","e">>, <<"o","u","n","c","e","s">> >>,
       << <<"g">>, <<"g","r","a","m">>, <<"g","r","a","m","s">> >>,
       << <<"m","l">>, <<"m","i","l","l","i","l","i","t","e","r">>,
          <<"m","i","l","l","i","l","i","t","e","r","s">> >>,
       << <<"k","g">>, <<"k","i","l","o","g","r","a","m">>,
          <<"k","i","l","o","g","r","a","m","s">> >>,
       << <<"l","b">>, <<"p","o","u","n","d">>, <<"p","o","u","n","d","s">> >> >>

\* the end of a match of (fl\s*oz|fluid\s*ounce)\b at position p; 0 if none
FluidUnitEnd(s, p) ==
    LET oz    == RunEnd(s, p + 2, Space) + 1
        ounce == RunEnd(s, p + 5, Space) + 1
    IN  IF /\ HasAtI(s, p, <<"f","l">>)
           /\ HasAtI(s, oz, <<"o","z">>)
           /\ WordBoundary(s, oz + 2)
        THEN oz + 1
        ELSE IF /\ HasAtI(s, p, <<"f","l","u","i","d">>)
                /\ HasAtI(s, ounce, <<"o","u","n","c","e">>)
                /\ WordBoundary(s, ounce + 5)
        THEN ounce + 4
        ELSE 0

\* the end of the match of size pattern number n that starts at p; 0 if none
FallbackMatchEnd(s, p, n) ==
    IF ~(p >= 1 /\ p <= Len(s) /\ s[p] \in Digit /\ WordBoundary(s, p)) THEN 0
    ELSE
    LET d1 == RunEnd(s, p, Digit)
        d2 == IF HasAt(s, d1 + 1, <<".">>)
              THEN RunEnd(s, d1 + 2, Digit) ELSE d1
        sp == RunEnd(s, d2 + 1, Space)
    IN  IF n <= Len(fallback_units)
        THEN UnitEnd(s, sp + 1, fallback_units[n])
        ELSE FluidUnitEnd(s, sp + 1)

\* [m.group(0) for m in re.finditer(size_patterns[n], s, re.IGNORECASE)],
\* searching from position from
RECURSIVE finditer(_, _, _)
finditer(s, n, from) ==
    LET starts == {p \in from..Len(s) : FallbackMatchEnd(s, p, n) # 0}
    IN  IF starts = {} THEN <<>>
        ELSE LET p == Least(starts)
                 e == FallbackMatchEnd(s, p, n)
             IN  <<SubSeq(s, p, e)>> \o finditer(s, n, e + 1)

\* the matches in the order the two nested loops visit them: pattern by
\* pattern, and within a pattern by position
fallback_matches(s) ==
    Flatten([n \in 1..(Len(fallback_units) + 1) |-> finditer(s, n, 1)])

\* the inner body of the fallback loops
RECURSIVE fallback_sizes(_, _)
fallback_sizes(sizes, matches) ==
    IF matches = <<>> THEN sizes
    ELSE LET size_text == Head(matches)
         IN  fallback_sizes(
                IF size_text # <<>> /\ size_text \notin Range(sizes)
                THEN Append(sizes, Strip(size_text)) ELSE sizes,
                Tail(matches))

\* ' '.join(tree.xpath('//text()')): the text nodes of the page.  The model
\* takes them in this order; the text of script elements is not modelled.
all_text_content(pg) ==
    Join(<<" ">>,
         pg.names
         \o pg.base_price_elem
         \o [k \in 1..Len(pg.options) |-> pg.options[k].text]
         \o [k \in 1..Len(pg.radio_options) |-> pg.radio_options[k].label_text]
         \o Flatten(pg.option_lists)
         \o Flatten([k \in 1..Len(pg.tables) |->
                        <<pg.tables[k].header_text>> \o Flatten(pg.tables[k].rows)])
         \o [k \in 1..Len(pg.text_elements) |-> pg.text_elements[k].text]
         \o pg.body_text)

\* a fallback that would run whenever the product has no prices
fallback_needed_unpriced(product) == DOMAIN product.prices = {}

\* if not product['sizes']: the text-mining fallback runs
fallback_needed(product) == product.sizes = <<>>

\* What a call returns, with its trace:
\*   status        "None" or "product"
\*   product       the record returned (NewProduct when status is "None")
\*   called        the strategies called, in order
\*   outputs       what each of them returned
\*   all_variants  the variants that were consolidated
\*   fallback      the text-mining fallback ran
NoResult ==
    [status |-> "None", product |-> NewProduct, called |-> <<>>,
     outputs |-> <<>>, all_variants |-> <<>>, fallback |-> FALSE]

\* the product with its price_info
with_price_info(product) ==
    [product EXCEPT !.price_info = price_info(product.prices)]

\* the product after the fallback, when it is needed
with_fallback(product, pg) ==
    IF fallback_needed(product)
    THEN [product EXCEPT !.sizes =
            fallback_sizes(product.sizes, fallback_matches(all_text_content(pg)))]
    ELSE product

\* the part of the call after the strategies ran
finish_product(pg, run, priced) ==
    [status |-> "product", product |-> with_fallback(priced, pg),
     called |-> run.called, outputs |-> run.outputs,
     all_variants |-> run.all_variants, fallback |-> fallback_needed(priced)]

\* the part of the call after the name was taken
consolidated(pg, named, run) ==
    finish_product(pg, run, with_price_info(consolidate(named, run.all_variants)))

scrape_product_details(pg) ==
    IF pg.fetch # "ok" THEN NoResult
    ELSE IF pg.document = "empty" THEN NoResult
    ELSE consolidated(pg, [NewProduct EXCEPT !.name = product_name(pg.names)],
            strategy_chain(pg, 1,
                [all_variants |-> <<>>, called |-> <<>>, outputs |-> <<>>]))

-----------------------------------------------------------------------------
(* The pages of the model.  A page is what the requests for it and the     *)
(* queries on its document give:                                           *)
(*   fetch            "ok", or how session.get / raise_for_status failed   *)
(*   document         "ok", or "empty" when html.fromstring raises         *)
(*   names            the text nodes of the first name selector with any   *)
(*   options          the <option>s of the size selects: text, value,      *)
(*                    data_price and api (the answer of the variation URL) *)
(*   base_price_elem  the texts of the price and sales elements            *)
(*   radio_options    the radio inputs: has_label, label_text and the      *)
(*                    three data attributes                                *)
(*   option_lists     the item texts of each option list                   *)
(*   json_scripts     the ld+json scripts as json.loads reads them         *)
(*   inline_matches   the matches of the inline patterns in the response   *)
(*                    text, as json.loads reads them                       *)
(*   tables           header_text and the cell texts of the rows after     *)
(*                    the first                                            *)
(*   text_elements    the elements with text: text, and search_texts, the  *)
(*                    texts of the elements searched for a price           *)
(*   body_text        the remaining text nodes                             *)
(* An absent attribute is the empty text (the code tests it for truth).    *)

\* the request fails (also the answer of an option that has no variation URL)
ApiNone ==
    [status |-> "request_error", text |-> <<>>, json |-> "invalid", formatted |-> <<>>]

\* {"product":{"price":{"sales":{"formatted":"$1,234.00"}}}}
ApiFormattedThousands ==
    [status |-> "ok", text |-> <<"{","\"","p","r","o","d","u","c","t","\"",":","{","\"","p","r","i","c","e","\"",":","{","\"","s","a","l","e","s","\"",":","{","\"","f","o","r","m","a","t","t","e","d","\"",":","\"","$","1",",","2","3","4",".","0","0","\"","}","}","}","}">>, json |-> "formatted", formatted |-> <<"$","1",",","2","3","4",".","0","0">>]

\* {"product":{"price":{"sales":{"formatted":"$12.50"}}}}
ApiFormatted ==
    [status |-> "ok", text |-> <<"{","\"","p","r","o","d","u","c","t","\"",":","{","\"","p","r","i","c","e","\"",":","{","\"","s","a","l","e","s","\"",":","{","\"","f","o","r","m","a","t","t","e","d","\"",":","\"","$","1","2",".","5","0","\"","}","}","}","}">>, json |-> "formatted", formatted |-> <<"$","1","2",".","5","0">>]

\* {"price":{"formatted":"12.5"}}
ApiPriceText ==
    [status |-> "ok", text |-> <<"{","\"","p","r","i","c","e","\"",":","{","\"","f","o","r","m","a","t","t","e","d","\"",":","\"","1","2",".","5","\"","}","}">>, json |-> "object", formatted |-> <<>>]

\* <b>$1,234</b>
ApiHtml ==
    [status |-> "ok", text |-> <<"<","b",">","$","1",",","2","3","4","<","/","b",">">>, json |-> "invalid", formatted |-> <<>>]

\* 12.50
ApiScalar ==
    [status |-> "ok", text |-> <<"1","2",".","5","0">>, json |-> "scalar", formatted |-> <<>>]

\* text "1.0floz / 30ml (+$2.50)"
OptionDelta ==
    [text |-> <<"1",".","0","f","l","o","z"," ","/"," ","3","0","m","l"," ","(","+","$","2",".","5","0",")">>, value |-> <<>>, data_price |-> <<>>, api |-> ApiNone]

\* text " 30ml "
OptionPlain ==
    [text |-> <<" ","3","0","m","l"," ">>, value |-> <<>>, data_price |-> <<>>, api |-> ApiNone]

\* text "30ml", data-price "1,234.5"
OptionData ==
    [text |-> <<"3","0","m","l">>, value |-> <<>>, data_price |-> <<"1",",","2","3","4",".","5">>, api |-> ApiNone]

\* text "100g - $8"
OptionDollar ==
    [text |-> <<"1","0","0","g"," ","-"," ","$","8">>, value |-> <<>>, data_price |-> <<>>, api |-> ApiNone]

\* text "2 oz (sample)"
OptionParen ==
    [text |-> <<"2"," ","o","z"," ","(","s","a","m","p","l","e",")">>, value |-> <<>>, data_price |-> <<>>, api |-> ApiNone]

\* text "8 fl oz", value "/Product-Variation?pid=1"
OptionApiThousands ==
    [text |-> <<"8"," ","f","l"," ","o","z">>, value |-> <<"/","P","r","o","d","u","c","t","-","V","a","r","i","a","t","i","o","n","?","p","i","d","=","1">>, data_price |-> <<>>, api |-> ApiFormattedThousands]

\* text "1.0floz / 30ml (+$2.50)", a variation URL, data-price "9.99"
OptionApi ==
    [text |-> <<"1",".","0","f","l","o","z"," ","/"," ","3","0","m","l"," ","(","+","$","2",".","5","0",")">>, value |-> <<"/","P","r","o","d","u","c","t","-","V","a","r","i","a","t","i","o","n","?","p","i","d","=","1">>, data_price |-> <<"9",".","9","9">>, api |-> ApiFormatted]

\* text "100g", a variation URL
OptionApiText ==
    [text |-> <<"1","0","0","g">>, value |-> <<"/","P","r","o","d","u","c","t","-","V","a","r","i","a","t","i","o","n","?","p","i","d","=","1">>, data_price |-> <<>>, api |-> ApiPriceText]

\* text "5 lb", a variation URL
OptionApiHtml ==
    [text |-> <<"5"," ","l","b">>, value |-> <<"/","P","r","o","d","u","c","t","-","V","a","r","i","a","t","i","o","n","?","p","i","d","=","1">>, data_price |-> <<>>, api |-> ApiHtml]

\* text "100g", a variation URL whose request fails, data-price "9.99"
OptionApiFails ==
    [text |-> <<"1","0","0","g">>, value |-> <<"/","P","r","o","d","u","c","t","-","V","a","r","i","a","t","i","o","n","?","p","i","d","=","1">>, data_price |-> <<"9",".","9","9">>, api |-> ApiNone]

\* text "250ml", a variation URL
OptionApiScalar ==
    [text |-> <<"2","5","0","m","l">>, value |-> <<"/","P","r","o","d","u","c","t","-","V","a","r","i","a","t","i","o","n","?","p","i","d","=","1">>, data_price |-> <<>>, api |-> ApiScalar]

\* text "Choose Options"
OptionPlaceholder ==
    [text |-> <<"C","h","o","o","s","e"," ","O","p","t","i","o","n","s">>, value |-> <<>>, data_price |-> <<>>, api |-> ApiNone]

\* text "Red": no size
OptionColour ==
    [text |-> <<"R","e","d">>, value |-> <<>>, data_price |-> <<>>, api |-> ApiNone]

\* text "5 lb", data-price ","
OptionCommas ==
    [text |-> <<"5"," ","l","b">>, value |-> <<>>, data_price |-> <<",">>, api |-> ApiNone]

OptionPool ==
    {OptionDelta, OptionPlain, OptionData, OptionDollar, OptionParen, OptionApiThousands, OptionApi, OptionApiText, OptionApiHtml, OptionApiFails, OptionApiScalar, OptionPlaceholder, OptionColour, OptionCommas}

\* no radio input
RadiosNone ==
    <<>>

\* a radio labelled "50 g ($5)"
RadiosPriced ==
    <<[has_label |-> TRUE, label_text |-> <<"5","0"," ","g"," ","(","$","5",")">>, data_price |-> <<>>, data_price_diff |-> <<>>, data_calcprice |-> <<>>]>>

\* a radio without a label, and one labelled "4  oz"
RadiosUnpriced ==
    <<[has_label |-> FALSE, label_text |-> <<>>, data_price |-> <<>>, data_price_diff |-> <<>>, data_calcprice |-> <<>>], [has_label |-> TRUE, label_text |-> <<"4"," "," ","o","z">>, data_price |-> <<>>, data_price_diff |-> <<>>, data_calcprice |-> <<>>]>>

\* "2 oz" with data-price-diff "3.5", and "2 oz $4.25"
RadiosData ==
    <<[has_label |-> TRUE, label_text |-> <<"2"," ","o","z">>, data_price |-> <<>>, data_price_diff |-> <<"3",".","5">>, data_calcprice |-> <<>>], [has_label |-> TRUE, label_text |-> <<"2"," ","o","z"," ","$","4",".","2","5">>, data_price |-> <<>>, data_price_diff |-> <<>>, data_calcprice |-> <<>>]>>

\* "1 kg $30", "2 oz" with data-calcprice ",", and "2 kg $50"
RadiosCommas ==
    <<[has_label |-> TRUE, label_text |-> <<"1"," ","k","g"," ","$","3","0">>, data_price |-> <<>>, data_price_diff |-> <<>>, data_calcprice |-> <<>>], [has_label |-> TRUE, label_text |-> <<"2"," ","o","z">>, data_price |-> <<>>, data_price_diff |-> <<>>, data_calcprice |-> <<",">>], [has_label |-> TRUE, label_text |-> <<"2"," ","k","g"," ","$","5","0">>, data_price |-> <<>>, data_price_diff |-> <<>>, data_calcprice |-> <<>>]>>

RadioPool ==
    {RadiosNone, RadiosPriced, RadiosUnpriced, RadiosData, RadiosCommas}

\* no option list
ListsNone ==
    <<>>

\* one list with "100ml [+$2.50]" and "250ml"
ListsPriced ==
    <<<<<<"1","0","0","m","l"," ","[","+","$","2",".","5","0","]">>, <<"2","5","0","m","l">>>>>>

\* two lists with "Other" and "1 L [$1,000]"
ListsTwo ==
    <<<<<<"O","t","h","e","r">>>>, <<<<"1"," ","L"," ","[","$","1",",","0","0","0","]">>>>>>

ListPool ==
    {ListsNone, ListsPriced, ListsTwo}

\* no ld+json script
ScriptsNone ==
    <<>>

\* a script json.loads rejects, then one with an Organization and a Product
\* whose offers are "Glycerin"/"Size 30 ml" at 12.5 and "100g" at "8.5"
ScriptsOffers ==
    <<[valid |-> FALSE, items |-> <<>>], [valid |-> TRUE, items |-> <<[kind |-> "dict", type |-> "Organization", has_offers |-> FALSE, offers |-> <<>>], [kind |-> "dict", type |-> "Product", has_offers |-> TRUE, offers |-> <<[texts |-> <<<<"G","l","y","c","e","r","i","n">>, <<"S","i","z","e"," ","3","0"," ","m","l">>>>, price |-> [kind |-> "number", cents |-> 1250, text |-> <<>>]], [texts |-> <<<<"1","0","0","g">>>>, price |-> [kind |-> "string", cents |-> 0, text |-> <<"8",".","5">>]]>>]>>]>>

\* a Product whose offers are "30ml" at -5 and "60ml" without a price
ScriptsNegative ==
    <<[valid |-> TRUE, items |-> <<[kind |-> "dict", type |-> "Product", has_offers |-> TRUE, offers |-> <<[texts |-> <<<<"3","0","m","l">>>>, price |-> [kind |-> "number", cents |-> -500, text |-> <<>>]], [texts |-> <<<<"6","0","m","l">>>>, price |-> [kind |-> "absent", cents |-> 0, text |-> <<>>]]>>]>>]>>

\* a Product whose offers are "30ml" at 10, "60ml" at "N/A" and "90ml" at 30
ScriptsBadPrice ==
    <<[valid |-> TRUE, items |-> <<[kind |-> "dict", type |-> "Product", has_offers |-> TRUE, offers |-> <<[texts |-> <<<<"3","0","m","l">>>>, price |-> [kind |-> "number", cents |-> 1000, text |-> <<>>]], [texts |-> <<<<"6","0","m","l">>>>, price |-> [kind |-> "string", cents |-> 0, text |-> <<"N","/","A">>]], [texts |-> <<<<"9","0","m","l">>>>, price |-> [kind |-> "number", cents |-> 3000, text |-> <<>>]]>>]>>]>>

\* a script whose item is no object
ScriptsNoObject ==
    <<[valid |-> TRUE, items |-> <<[kind |-> "other", type |-> "Product", has_offers |-> TRUE, offers |-> <<>>]>>]>>

JsonLdPool ==
    {ScriptsNone, ScriptsOffers, ScriptsNegative, ScriptsBadPrice, ScriptsNoObject}

\* no match of the inline patterns
InlineNone ==
    <<>>

\* a match json.loads rejects, then an object with variants "Default"/"30ml"
\* at 9.99 and "60ml" at "USD 1,299.00"
InlineVariants ==
    <<[valid |-> FALSE, shape |-> "list", variants_data |-> <<>>], [valid |-> TRUE, shape |-> "variants", variants_data |-> <<[kind |-> "dict", texts |-> <<<<"D","e","f","a","u","l","t">>, <<"3","0","m","l">>>>, prices |-> <<[kind |-> "number", cents |-> 999, text |-> <<>>]>>], [kind |-> "dict", texts |-> <<<<"6","0","m","l">>>>, prices |-> <<[kind |-> "other", cents |-> 0, text |-> <<>>], [kind |-> "string", cents |-> 0, text |-> <<"U","S","D"," ","1",",","2","9","9",".","0","0">>]>>]>>]>>

\* an object with neither key, then a list of a plain string and "30ml" at "12"
InlineList ==
    <<[valid |-> TRUE, shape |-> "other", variants_data |-> <<>>], [valid |-> TRUE, shape |-> "list", variants_data |-> <<[kind |-> "skipped", texts |-> <<>>, prices |-> <<>>], [kind |-> "dict", texts |-> <<<<"3","0","m","l">>>>, prices |-> <<[kind |-> "string", cents |-> 0, text |-> <<"1","2">>]>>]>>]>>

\* an object with options "30ml" at 5, an entry that raises, and "60ml" at 9
InlineRaises ==
    <<[valid |-> TRUE, shape |-> "options", variants_data |-> <<[kind |-> "dict", texts |-> <<<<"3","0","m","l">>>>, prices |-> <<[kind |-> "number", cents |-> 500, text |-> <<>>]>>], [kind |-> "raises", texts |-> <<>>, prices |-> <<>>], [kind |-> "dict", texts |-> <<<<"6","0","m","l">>>>, prices |-> <<[kind |-> "number", cents |-> 900, text |-> <<>>]>>]>>]>>

InlinePool ==
    {InlineNone, InlineVariants, InlineList, InlineRaises}

\* no table
TablesNone ==
    <<>>

\* "Size Price" with rows 30ml/$10.00, 30ml/$12.00 and 60ml/$1,100.00
TablesSizes ==
    <<[header_text |-> <<"S","i","z","e"," ","P","r","i","c","e">>, rows |-> <<<<<<"3","0","m","l">>, <<"$","1","0",".","0","0">>>>, <<<<"3","0","m","l">>, <<"$","1","2",".","0","0">>>>, <<<<"6","0","m","l">>, <<"$","1",",","1","0","0",".","0","0">>>>>>]>>

\* "Ingredient" with 30ml/$1.00, then "size price" with a one-cell row,
\* 60ml/"call us" and " 1 kg "/" $25.00 "
TablesOther ==
    <<[header_text |-> <<"I","n","g","r","e","d","i","e","n","t">>, rows |-> <<<<<<"3","0","m","l">>, <<"$","1",".","0","0">>>>>>], [header_text |-> <<"s","i","z","e"," ","p","r","i","c","e">>, rows |-> <<<<<<"6","0","m","l">>>>, <<<<"6","0","m","l">>, <<"c","a","l","l"," ","u","s">>>>, <<<<" ","1"," ","k","g"," ">>, <<" ","$","2","5",".","0","0"," ">>>>>>]>>

TablePool ==
    {TablesNone, TablesSizes, TablesOther}

\* no element with text
ElementsNone ==
    <<>>

\* "Description", "Net 30ml" near "Now $7.50", and "60ml" near "$9.00"
ElementsPriced ==
    <<[text |-> <<"D","e","s","c","r","i","p","t","i","o","n">>, search_texts |-> <<<<"$","3",".","0","0">>>>], [text |-> <<"N","e","t"," ","3","0","m","l">>, search_texts |-> <<<<"N","e","t"," ","3","0","m","l">>, <<"N","o","w"," ","$","7",".","5","0">>>>], [text |-> <<"6","0","m","l">>, search_texts |-> <<<<"$","9",".","0","0">>>>]>>

\* "Net 30ml" with no price near
ElementsUnpriced ==
    <<[text |-> <<"N","e","t"," ","3","0","m","l">>, search_texts |-> <<<<"N","e","t"," ","3","0","m","l">>, <<"a","s","k">>>>]>>

ElementPool ==
    {ElementsNone, ElementsPriced, ElementsUnpriced}

\* no other text
BodyNone ==
    <<>>

\* "Available in 50g and 100g"
BodySizes ==
    <<<<"A","v","a","i","l","a","b","l","e"," ","i","n"," ","5","0","g"," ","a","n","d"," ","1","0","0","g">>>>

\* "100ml or 50g, 8 fl oz"
BodyMixed ==
    <<<<"1","0","0","m","l"," ","o","r"," ","5","0","g",","," ","8"," ","f","l"," ","o","z">>>>

BodyPool ==
    {BodyNone, BodySizes, BodyMixed}

\* no name node
NamesNone ==
    <<>>

\* "Glycerin"
NamesOne ==
    <<<<"G","l","y","c","e","r","i","n">>>>

\* blank nodes only
NamesBlank ==
    <<<<" "," ">>, <<" ">>>>

\* " Glycerin ", " ", "USP "
NamesThree ==
    <<<<" ","G","l","y","c","e","r","i","n"," ">>, <<" ">>, <<"U","S","P"," ">>>>

NamePool ==
    {NamesNone, NamesOne, NamesBlank, NamesThree}

\* no price element
BaseNone ==
    <<>>

\* "$10.00"
BaseTen ==
    <<<<"$","1","0",".","0","0">>>>

\* "Sale" and "from $0.00"
BaseZero ==
    <<<<"S","a","l","e">>, <<"f","r","o","m"," ","$","0",".","0","0">>>>

BasePool ==
    {BaseNone, BaseTen, BaseZero}

Page(fetch, document, names, options, base, radios, lists, scripts, matches, tables, elements, body) ==
    [fetch |-> fetch, document |-> document, names |-> names,
     options |-> options, base_price_elem |-> base,
     radio_options |-> radios, option_lists |-> lists,
     json_scripts |-> scripts, inline_matches |-> matches,
     tables |-> tables, text_elements |-> elements, body_text |-> body]

\* the longest list of select options on a page of the model
MaxOptions == 2

OptionSeqs == UNION {[1..n -> OptionPool] : n \in 0..MaxOptions}

\* pages with select options and nothing else: every list of options with
\* every base price
OptionPages ==
    {Page("ok", "ok", NamesOne, os, b, RadiosNone, ListsNone, ScriptsNone,
          InlineNone, TablesNone, ElementsNone, BodyNone) :
        os \in OptionSeqs, b \in BasePool}

\* pages on which each signal is either absent or present: select options,
\* radios, option lists, ld+json, inline JSON, tables, nearby texts
ChainPages ==
    {Page("ok", "ok", NamesOne, os, BaseTen, r, l, s, m, t, e, b) :
        os \in {<<>>, <<OptionDelta>>, <<OptionColour>>},
        r \in {RadiosNone, RadiosPriced},
        l \in {ListsNone, ListsPriced},
        s \in {ScriptsNone, ScriptsOffers},
        m \in {InlineNone, InlineVariants},
        t \in {TablesNone, TablesSizes},
        e \in {ElementsNone, ElementsPriced},
        b \in {BodyNone, BodySizes}}

\* pages with one signal only, in every form of its pool, and any body text
SignalPages ==
    UNION {
      {Page("ok", "ok", NamesOne, <<>>, BaseNone, r, ListsNone, ScriptsNone,
            InlineNone, TablesNone, ElementsNone, b) : r \in RadioPool, b \in BodyPool},
      {Page("ok", "ok", NamesOne, <<>>, BaseNone, RadiosNone, l, ScriptsNone,
            InlineNone, TablesNone, ElementsNone, b) : l \in ListPool, b \in BodyPool},
      {Page("ok", "ok", NamesOne, <<>>, BaseNone, RadiosNone, ListsNone, s,
            InlineNone, TablesNone, ElementsNone, b) : s \in JsonLdPool, b \in BodyPool},
      {Page("ok", "ok", NamesOne, <<>>, BaseNone, RadiosNone, ListsNone, ScriptsNone,
            m, TablesNone, ElementsNone, b) : m \in InlinePool, b \in BodyPool},
      {Page("ok", "ok", NamesOne, <<>>, BaseNone, RadiosNone, ListsNone, ScriptsNone,
            InlineNone, t, ElementsNone, b) : t \in TablePool, b \in BodyPool},
      {Page("ok", "ok", NamesOne, <<>>, BaseNone, RadiosNone, ListsNone, ScriptsNone,
            InlineNone, TablesNone, e, b) : e \in ElementPool, b \in BodyPool} }

\* pages whose fetch or parse fails or succeeds, with every kind of name,
\* with and without a select option
FetchPages ==
    {Page(f[1], f[2], n, os, BaseTen, RadiosNone, ListsNone, ScriptsNone,
          InlineNone, TablesNone, ElementsNone, BodyNone) :
        f \in {<<"ok", "ok">>, <<"timeout", "ok">>, <<"http_error", "ok">>,
               <<"ok", "empty">>},
        n \in NamePool,
        os \in {<<>>, <<OptionDelta>>}}

\* pages whose select scan raises, at once or after one variant, and that
\* have radio inputs and option lists too
ScanPages ==
    {Page("ok", "ok", NamesOne, os, BaseTen, r, l, ScriptsNone,
          InlineNone, TablesNone, ElementsNone, BodyNone) :
        os \in {<<OptionCommas>>, <<OptionDelta, OptionCommas>>},
        r \in {RadiosPriced, RadiosCommas},
        l \in {ListsNone, ListsPriced}}

PagePool ==
    OptionPages \cup ChainPages \cup SignalPages \cup FetchPages \cup ScanPages

\* a page with a name and nothing else
BlankPage ==
    Page("ok", "ok", NamesOne, <<>>, BaseNone, RadiosNone, ListsNone,
         ScriptsNone, InlineNone, TablesNone, ElementsNone, BodyNone)

\* no call of scrape_product_details has returned
NoCall == [NoResult EXCEPT !.status = "pending"]

-----------------------------------------------------------------------------
(* One call of scrape_product_details, on any page (SpecPage) *)

\* the largest number of HTTP requests in one behaviour
MaxRequests == 2

Reqs == 1..MaxRequests

\* a request that has not been made: endpoint is "scrape" or "scrape_async"
\* once it is made, position is "new", "polling", "in_run" or "responded",
\* response is the answer (status "none" until there is one; run is the
\* run_scrape execution whose result payload a "completed" answer carries),
\* expired says the deadline of its wait loop has passed, and
\* run_at_response is the state of its own run_scrape when it answered
NewRequest ==
    [endpoint |-> "none", wait |-> FALSE, position |-> "new", expired |-> FALSE,
     response |-> [status |-> "none", run |-> 0], run_at_response |-> "none"]

\* the module is loaded: scraping_status as initialised (last_full_result 0
\* is None), no request made, no run_scrape called
ApiLoaded ==
    /\ scraping_status = [is_running |-> FALSE, last_full_result |-> 0]
    /\ requests = [r \in Reqs |-> NewRequest]
    /\ runs = [r \in Reqs |-> "none"]

PageInit ==
    /\ pc = "start"
    /\ limit = [is_none |-> TRUE, value |-> 0]
    /\ all_links = <<>>
    /\ link_raised = FALSE
    /\ link_set = {}
    /\ list_failed = FALSE
    /\ classified = <<>>
    /\ product_links = <<>>
    /\ visits = <<>>
    /\ products = <<>>
    /\ returned = <<>>
    /\ page \in PagePool
    /\ result = NoCall
    /\ calls = 1
    /\ ApiLoaded

\* scrape_product_details(product_url) on the current page
ScrapePage ==
    /\ result.status = "pending"
    /\ result' = scrape_product_details(page)
    /\ UNCHANGED <<page, crawlVars, apiVars>>

PageNext == ScrapePage

SpecPage == PageInit /\ [][PageNext]_vars

-----------------------------------------------------------------------------
(* The catalog crawl: scrape_all_products (Spec) *)

\* the longest list of hrefs on a listing page of the model
MaxLinks == 3

\* the largest limit handed to scrape_all_products
MaxLimit == 2

\* limit: None, or an integer
LimitPool ==
    {[is_none |-> TRUE, value |-> 0]}
        \cup {[is_none |-> FALSE, value |-> n] : n \in -1..MaxLimit}

HrefSeqs == UNION {[1..n -> HrefPool] : n \in 0..MaxLinks}

\* The listing page: how its fetch and parse end, and what //a/@href selects
ListingPool ==
    {[fetch |-> "ok", document |-> "ok", hrefs |-> h] : h \in HrefSeqs}
        \cup {[fetch |-> f[1], document |-> f[2], hrefs |-> h] :
                f \in {<<"timeout", "ok">>, <<"http_error", "ok">>, <<"ok", "empty">>},
                h \in {<<>>, <<HrefProduct, HrefAbsolute>>}}

\* the try block up to all_links raised
listing_failed(listing) == listing.fetch # "ok" \/ listing.document # "ok"

\* The loop over all_links from position k.  st holds product_links (the
\* set), the calls of is_product_url made, and whether the loop raised,
\* which ends it with the links added so far.
RECURSIVE link_loop(_, _, _)
link_loop(links, k, st) ==
    IF k > Len(links) THEN st
    ELSE LET link     == links[k]
             asked    == link # <<>>
             accepted == asked /\ is_product_url(link)
             record   == IF asked
                         THEN Append(st.classified,
                                     [url |-> link, accepted |-> accepted])
                         ELSE st.classified
         IN  IF accepted /\ urljoin_raises(normalized_link(link))
             THEN [st EXCEPT !.classified = record, !.raised = TRUE]
             ELSE link_loop(links, k + 1,
                    [st EXCEPT !.classified = record,
                               !.product_links =
                                    IF accepted THEN @ \cup {full_url(link)} ELSE @])

\* a discovery that would go through the hrefs of a listing page whose
\* fetch failed
get_all_product_links_despite_failure(listing) ==
    [failed |-> listing_failed(listing), all_links |-> listing.hrefs,
     loop |-> link_loop(listing.hrefs, 1,
                [product_links |-> {}, classified |-> <<>>, raised |-> FALSE])]

\* get_all_product_links up to the return: the set of links and the trace
get_all_product_links(listing) ==
    LET none == [product_links |-> {}, classified |-> <<>>, raised |-> FALSE]
    IN  IF listing_failed(listing)
        THEN [failed |-> TRUE, all_links |-> <<>>, loop |-> none]
        ELSE [failed |-> FALSE, all_links |-> listing.hrefs,
              loop |-> link_loop(listing.hrefs, 1, none)]

\* list(a_set): any order of the elements
Orders(S) ==
    {s \in [1..Cardinality(S) -> S] : \A x \in S : \E k \in DOMAIN s : s[k] = x}

\* limit is not None and isinstance(limit, int) and limit > 0
limit_applies(lim) == ~lim.is_none /\ lim.value > 0

\* product_links[:limit]
limited(links, lim) ==
    IF limit_applies(lim)
    THEN SubSeq(links, 1, IF lim.value < Len(links) THEN lim.value ELSE Len(links))
    ELSE links

\* a test that would keep every product returned, named or not
keep_product_unnamed(r) == r.status = "product"

\* product and product.get('name')
keep_product(r) == r.status = "product" /\ r.product.name # <<>>

\* a loop that would end at the first URL that gives no product
after_visit_abort(r) == IF r.status = "None" THEN "done" ELSE "loop"

\* where the loop goes after a URL: scrape_product_details raises nothing,
\* and whatever it returned the loop goes on
after_visit(r) == "loop"

\* the product pages of the crawl: a page with a name and a priced size, one
\* with a blank name, one without name, and the three ways a page fails
CrawlPages ==
    {Page("ok", "ok", NamesOne, <<OptionDelta>>, BaseTen, RadiosNone, ListsNone,
          ScriptsNone, InlineNone, TablesNone, ElementsNone, BodyNone),
     Page("ok", "ok", NamesBlank, <<OptionDelta>>, BaseTen, RadiosNone, ListsNone,
          ScriptsNone, InlineNone, TablesNone, ElementsNone, BodyNone),
     Page("ok", "ok", NamesNone, <<>>, BaseNone, RadiosNone, ListsNone,
          ScriptsNone, InlineNone, TablesNone, ElementsNone, BodySizes),
     Page("timeout", "ok", NamesOne, <<OptionDelta>>, BaseTen, RadiosNone, ListsNone,
          ScriptsNone, InlineNone, TablesNone, ElementsNone, BodyNone),
     Page("http_error", "ok", NamesOne, <<>>, BaseNone, RadiosNone, ListsNone,
          ScriptsNone, InlineNone, TablesNone, ElementsNone, BodyNone),
     Page("ok", "empty", NamesNone, <<>>, BaseNone, RadiosNone, ListsNone,
          ScriptsNone, InlineNone, TablesNone, ElementsNone, BodyNone)}

\* scrape_all_products(limit) is called on a new scraper
Init ==
    /\ pc = "start"
    /\ limit \in LimitPool
    /\ all_links = <<>>
    /\ link_raised = FALSE
    /\ link_set = {}
    /\ list_failed = FALSE
    /\ classified = <<>>
    /\ product_links = <<>>
    /\ visits = <<>>
    /\ products = <<>>
    /\ returned = <<>>
    /\ page = BlankPage
    /\ result = NoCall
    /\ calls = 1
    /\ ApiLoaded

\* what get_all_product_links leaves when it returns got; list(product_links)
\* takes the links in any order
discovered(got) ==
    /\ list_failed' = got.failed
    /\ all_links' = got.all_links
    /\ classified' = got.loop.classified
    /\ link_raised' = got.loop.raised
    /\ link_set' = got.loop.product_links
    /\ product_links' \in Orders(got.loop.product_links)

\* product_links = self.get_all_product_links(), the listing page being one
\* of listings
GetLinksFrom(listings) ==
    /\ pc = "start"
    /\ \E listing \in listings : discovered(get_all_product_links(listing))
    /\ pc' = "links"
    /\ UNCHANGED <<limit, visits, products, returned, page, result, calls, apiVars>>

GetAllProductLinks == GetLinksFrom(ListingPool)

\* the optional limit; the locals of get_all_product_links are gone
ApplyLimit ==
    /\ pc = "links"
    /\ product_links' = limited(product_links, limit)
    /\ all_links' = <<>>
    /\ classified' = <<>>
    /\ link_set' = {}
    /\ pc' = "loop"
    /\ UNCHANGED <<limit, link_raised, list_failed, visits, products, returned,
                   page, result, calls, apiVars>>

\* the body of the loop for product_url, whose page is pg, when
\* scrape_product_details returns r
visited(product_url, pg, r) ==
    /\ page' = pg
    /\ result' = r
    /\ visits' = Append(visits, [url |-> product_url, fetch |-> pg.fetch,
                                 status |-> r.status, product |-> r.product])
    /\ products' = IF keep_product(r) THEN Append(products, r.product)
                   ELSE products
    /\ pc' = after_visit(r)

\* one turn of the loop over product_links, the page of the URL being one of
\* pages
ScrapeOneFrom(pages) ==
    /\ pc = "loop"
    /\ Len(visits) < Len(product_links)
    /\ \E pg \in pages :
         visited(product_links[Len(visits) + 1], pg, scrape_product_details(pg))
    /\ UNCHANGED <<limit, all_links, link_raised, link_set, list_failed,
                   classified, product_links, returned, calls, apiVars>>

ScrapeOne == ScrapeOneFrom(CrawlPages)

\* the loop is over: return self.products
Return ==
    /\ pc = "loop"
    /\ Len(visits) = Len(product_links)
    /\ returned' = products
    /\ pc' = "done"
    /\ UNCHANGED <<limit, all_links, link_raised, link_set, list_failed,
                   classified, product_links, visits, products, page, result,
                   calls, apiVars>>

Next == GetAllProductLinks \/ ApplyLimit \/ ScrapeOne \/ Return

Spec == Init /\ [][Next]_vars

-----------------------------------------------------------------------------
(* scrape_all_products called again on the same scraper (SpecReuse) *)

\* the largest number of calls on one scraper
MaxCalls == 2

\* the listing pages of these crawls: no link, one product link, two, and a
\* fetch that fails
ReuseListings ==
    {[fetch |-> "ok", document |-> "ok", hrefs |-> h] :
        h \in {<<>>, <<HrefProduct>>, <<HrefProduct, HrefAbsolute>>}}
        \cup {[fetch |-> "timeout", document |-> "ok", hrefs |-> <<HrefProduct>>]}

\* their product pages: a page with a name and a priced size, one whose
\* only text is its name, and a fetch that fails
ReusePages ==
    {Page("ok", "ok", NamesOne, <<OptionDelta>>, BaseTen, RadiosNone, ListsNone,
          ScriptsNone, InlineNone, TablesNone, ElementsNone, BodyNone),
     BlankPage,
     Page("timeout", "ok", NamesOne, <<OptionDelta>>, BaseTen, RadiosNone, ListsNone,
          ScriptsNone, InlineNone, TablesNone, ElementsNone, BodyNone)}

\* scrape_all_products(limit) is called once more on the scraper: its locals
\* are new, self.products is the list __init__ created
CallAgain ==
    /\ pc = "done"
    /\ calls < MaxCalls
    /\ calls' = calls + 1
    /\ limit' \in LimitPool
    /\ pc' = "start"
    /\ all_links' = <<>>
    /\ link_raised' = FALSE
    /\ link_set' = {}
    /\ list_failed' = FALSE
    /\ classified' = <<>>
    /\ product_links' = <<>>
    /\ visits' = <<>>
    /\ UNCHANGED <<products, returned, page, result, apiVars>>

ReuseNext ==
    \/ GetLinksFrom(ReuseListings)
    \/ ApplyLimit
    \/ ScrapeOneFrom(ReusePages)
    \/ Return
    \/ CallAgain

SpecReuse == Init /\ [][ReuseNext]_vars

-----------------------------------------------------------------------------
(* Properties of one call of scrape_product_details (SpecPage) *)

\* the call on the current page returned a product
Extracted == result.status = "product"

\* C1: the strategies are called in the order options, json_ld, inline_json,
\* tables, proximity; a strategy is called only if every strategy before it
\* returned an empty list; and when the options strategy returns a variant
\* no other strategy is called and the sizes and prices of the product are
\* the consolidation of what the options strategy returned.
StrategiesInPriorityOrder ==
    Extracted =>
        /\ \E n \in 1..Len(strategy_names) :
                result.called = SubSeq(strategy_names, 1, n)
        /\ \A k \in 1..Len(result.called) :
                \A j \in 1..(k - 1) : strategy_output(page, j) = <<>>
        /\ extract_variants_from_options(page) # <<>> =>
                /\ result.called = <<"options">>
                /\ result.product.sizes =
                        consolidate(NewProduct, extract_variants_from_options(page)).sizes
                /\ result.product.prices =
                        consolidate(NewProduct, extract_variants_from_options(page)).prices

\* the options strategy returned variants on a page where a later strategy
\* would have returned some too
OptionsWinOverLaterSignals ==
    /\ Extracted
    /\ extract_variants_from_options(page) # <<>>
    /\ extract_variants_from_json_ld(page) # <<>>
    /\ extract_variants_from_tables(page) # <<>>

\* C2: the text-mining fallback runs only when all five strategies were
\* called and each returned an empty list, and when it runs the product has
\* no prices.
FallbackOnlyAfterAllEmpty ==
    (Extracted /\ result.fallback) =>
        /\ result.called = strategy_names
        /\ \A k \in 1..Len(strategy_names) : strategy_output(page, k) = <<>>
        /\ DOMAIN result.product.prices = {}

\* the fallback ran and found sizes in the text of the page
FallbackFoundSizes ==
    /\ Extracted
    /\ result.fallback
    /\ result.product.sizes # <<>>

\* the positions of the variants with this size, and of those with a price
Holding(variants, size) == {k \in DOMAIN variants : variants[k].size = size}

PricedHolding(variants, size) ==
    {k \in Holding(variants, size) : variants[k].price # NoPrice}

Greatest(S) == CHOOSE x \in S : \A y \in S : y <= x

\* C5: consolidation yields each size once, in the order of first appearance
\* among the variants, and for each size the price of the last variant that
\* has that size and a price.
ConsolidationLastWriteWins ==
    Extracted =>
        LET variants == result.all_variants
            sizes    == IF result.fallback THEN <<>> ELSE result.product.sizes
            prices   == result.product.prices
        IN  /\ \A i, j \in DOMAIN sizes : i # j => sizes[i] # sizes[j]
            /\ Range(sizes) = {variants[k].size : k \in DOMAIN variants}
            /\ \A i, j \in DOMAIN sizes :
                    i < j => Least(Holding(variants, sizes[i]))
                                < Least(Holding(variants, sizes[j]))
            /\ DOMAIN prices =
                    {size \in Range(sizes) : PricedHolding(variants, size) # {}}
            /\ \A size \in DOMAIN prices :
                    prices[size] =
                        variants[Greatest(PricedHolding(variants, size))].price

\* a size came twice with different prices, and a second size came later
SizeSeenTwiceWithPrices ==
    /\ Extracted
    /\ \E i, j \in DOMAIN result.all_variants :
            /\ i < j
            /\ result.all_variants[i].size = result.all_variants[j].size
            /\ result.all_variants[i].price # NoPrice
            /\ result.all_variants[j].price # NoPrice
            /\ result.all_variants[i].price # result.all_variants[j].price
    /\ Len(result.product.sizes) >= 2

\* "$", digits, a dot and two decimals
IsNormalizedPrice(price) ==
    /\ Len(price) >= 5
    /\ price[1] = "$"
    /\ AllIn(price, 2, Len(price) - 3, Digit)
    /\ price[Len(price) - 2] = "."
    /\ AllIn(price, Len(price) - 1, Len(price), Digit)

\* C6: every price of a returned product is "$", digits, a dot and exactly
\* two decimals, without thousands separators.
PricesNormalized ==
    Extracted =>
        \A size \in DOMAIN result.product.prices :
            IsNormalizedPrice(result.product.prices[size])

\* 1.0floz / 30ml
SizeWithoutDelta ==
    <<"1",".","0","f","l","o","z"," ","/"," ","3","0","m","l">>

\* C7: for a select option with the text "1.0floz / 30ml (+$2.50)", without
\* data-price and without variation URL, on a page with a detected base
\* price, the product has the single size "1.0floz / 30ml", its price is
\* the base price plus 2.50, and price_sources is ["option_data"].
DeltaOptionScenario ==
    (/\ Extracted
     /\ page.options = <<OptionDelta>>
     /\ base_price(page.base_price_elem).found) =>
        /\ result.product.sizes = <<SizeWithoutDelta>>
        /\ DOMAIN result.product.prices = {SizeWithoutDelta}
        /\ result.product.prices[SizeWithoutDelta] =
                FormatPrice(base_price(page.base_price_elem).cents + 250)
        /\ result.product.price_sources = {"option_data"}


-----------------------------------------------------------------------------
(* Properties of the crawl (Spec) *)

\* the visits whose product is kept, in order
KeptVisits ==
    SelectSeq(visits, LAMBDA v : v.status = "product" /\ v.product.name # <<>>)

\* C3: a visited URL adds its product to the result if and only if
\* scrape_product_details returned a product with a non-empty name; a URL
\* whose fetch failed adds nothing; the kept products are in the order of
\* the visits; and the crawl returns them.
KeptIffNamed ==
    /\ products = [k \in 1..Len(KeptVisits) |-> KeptVisits[k].product]
    /\ \A k \in DOMAIN visits :
            visits[k].fetch # "ok" => visits[k].status = "None"
    /\ pc \in {"start", "links", "loop", "done"}
    /\ pc = "done" => returned = products

\* a crawl returned after a visit that timed out, one that gave a product
\* without name, and one that was kept
MixedCrawlReturned ==
    /\ pc = "done"
    /\ \E k \in DOMAIN visits : visits[k].fetch = "timeout"
    /\ \E k \in DOMAIN visits :
            visits[k].status = "product" /\ visits[k].product.name = <<>>
    /\ returned # <<>>

\* the number of steps the crawl has left at most
StepsLeft ==
    CASE pc = "start" -> MaxLinks + 3
      [] pc = "links" -> MaxLinks + 2
      [] pc = "loop"  -> Len(product_links) - Len(visits) + 1
      [] pc = "done"  -> 0

\* C4: the visits follow the list of links, one visit for each position in
\* list order, whatever the visits before returned; the crawl returns only
\* when every link was visited; and it does return: until then a step is
\* always possible, and every step leaves fewer steps to take.
EveryLinkVisitedThenReturn ==
    /\ [](/\ Len(visits) <= Len(product_links)
          /\ \A k \in DOMAIN visits : visits[k].url = product_links[k])
    /\ [](pc = "done" => Len(visits) = Len(product_links) /\ returned = products)
    /\ [](pc # "done" => ENABLED Next)
    /\ [][StepsLeft' < StepsLeft]_vars

\* a visit failed and a later link was still visited before the return
VisitAfterFailure ==
    /\ pc = "done"
    /\ \E i, j \in DOMAIN visits : i < j /\ visits[i].status = "None"

\* C8: is_product_url answers false for a URL that any exclusion pattern
\* matches, also when a product-code pattern matches it, answers otherwise
\* whether a product-code pattern matches, and answers the same each time it
\* is called on the same URL.
ExclusionBeforeInclusion ==
    \A k \in DOMAIN classified :
        /\ AnyTrue(exclude_patterns(classified[k].url)) => ~classified[k].accepted
        /\ ~AnyTrue(exclude_patterns(classified[k].url)) =>
                (classified[k].accepted <=> AnyTrue(product_patterns(classified[k].url)))
        /\ \A j \in DOMAIN classified :
                classified[j].url = classified[k].url =>
                    classified[j].accepted = classified[k].accepted

\* a URL that an exclusion pattern and a product-code pattern both match was
\* classified twice
ExcludedProductCodeAskedTwice ==
    \E j, k \in DOMAIN classified :
        /\ j < k
        /\ classified[j].url = classified[k].url
        /\ AnyTrue(exclude_patterns(classified[k].url))
        /\ AnyTrue(product_patterns(classified[k].url))

\* C9: every URL that get_all_product_links returns is the stripped and
\* resolved form of an href of the listing page, is accepted by
\* is_product_url, and occurs once among the URLs returned.
ReturnedLinksAccepted ==
    pc = "links" =>
        \A k \in DOMAIN product_links :
            /\ \E j \in DOMAIN all_links : product_links[k] = full_url(all_links[j])
            /\ is_product_url(product_links[k])
            /\ \A j \in DOMAIN product_links :
                    product_links[j] = product_links[k] => j = k

\* C10: when the fetch of the listing page fails, get_all_product_links
\* returns no link and does not raise, and scrape_all_products returns
\* without a visit to any product page.
ListingFailureGivesEmptyCrawl ==
    list_failed =>
        /\ pc \in {"links", "loop", "done"}
        /\ product_links = <<>>
        /\ visits = <<>>
        /\ products = <<>>
        /\ pc = "done" => returned = <<>>

\* the crawl returned after the fetch of the listing page failed
ReturnedAfterListingFailure ==
    /\ list_failed
    /\ pc = "done"

-----------------------------------------------------------------------------
(* Further properties of one call of scrape_product_details (SpecPage) *)

\* the call on the current page returned
Returned == result.status # "pending"

\* C11: scrape_product_details returns None only when the fetch of the page
\* failed; when the fetch succeeded it returns a product record, whatever
\* the parse of the document and the steps after it do.
NoneOnlyWhenFetchFailed ==
    Returned => (result.status = "None" <=> page.fetch # "ok")

\* C13: price_sources holds the source tag of every variant the strategies
\* returned, of those without price too, and no other tag.
SourcesOfEveryVariant ==
    Extracted =>
        result.product.price_sources =
            {result.all_variants[k].source : k \in DOMAIN result.all_variants}

\* C19: every key of prices is an element of sizes, every element of sizes
\* is a non-empty string, and price_info is the empty string exactly when
\* prices is empty.
PricesKeyedBySizes ==
    Extracted =>
        /\ DOMAIN result.product.prices \subseteq Range(result.product.sizes)
        /\ \A k \in DOMAIN result.product.sizes : result.product.sizes[k] # <<>>
        /\ result.product.price_info = <<>> <=> DOMAIN result.product.prices = {}

\* a product with prices for some of its sizes and not for others
SomeSizesPriced ==
    /\ Extracted
    /\ DOMAIN result.product.prices # {}
    /\ Cardinality(DOMAIN result.product.prices) < Len(result.product.sizes)

\* where the matches of size pattern number n start, searching from from
RECURSIVE match_starts(_, _, _)
match_starts(s, n, from) ==
    LET starts == {p \in from..Len(s) : FallbackMatchEnd(s, p, n) # 0}
    IN  IF starts = {} THEN {}
        ELSE {<<Least(starts), n>>}
                \cup match_starts(s, n, FallbackMatchEnd(s, Least(starts), n) + 1)

\* the size tokens of a text in the order in which they stand in it
tokens_in_text_order(s) ==
    LET found == UNION {match_starts(s, n, 1) : n \in 1..(Len(fallback_units) + 1)}
        order == SortSeq(ListOf(found),
                         LAMBDA a, b : a[1] < b[1] \/ (a[1] = b[1] /\ a[2] < b[2]))
    IN  [k \in 1..Len(order) |->
            SubSeq(s, order[k][1], FallbackMatchEnd(s, order[k][1], order[k][2]))]

\* C14: when the fallback runs, sizes holds the distinct size tokens of the
\* page text in the order of their first occurrence in the text, prices is
\* empty and price_info is the empty string.
FallbackSizesInTextOrder ==
    (Extracted /\ result.fallback) =>
        /\ result.product.sizes =
              fallback_sizes(<<>>, tokens_in_text_order(all_text_content(page)))
        /\ DOMAIN result.product.prices = {}
        /\ result.product.price_info = <<>>

\* the variants of the steps of a scan that come before its first raising step
collected_before_error(steps) ==
    LET first == Least({k \in 1..Len(steps) : steps[k].raised} \cup {Len(steps) + 1})
    IN  Flatten([k \in 1..(first - 1) |-> steps[k].variants])

\* what the scans of strategy number n are expected to return
expected_output(pg, n) ==
    CASE n = "options" ->
            collected_before_error(select_steps(pg))
                \o collected_before_error(radio_ul_steps(pg))
      [] n = "json_ld" -> collected_before_error(json_ld_steps(pg))
      [] n = "inline_json" -> collected_before_error(inline_json_steps(pg))
      [] n = "tables" -> collected_before_error(tables_steps(pg))
      [] n = "proximity" -> extract_variants_from_proximity(pg)

\* C15: no strategy lets an error escape: a strategy whose scan raises after
\* it collected k variants returns those k variants, and an error in the
\* scan of the select options does not keep the scan of the radio inputs and
\* option lists from running.
StrategiesKeepCollectedVariants ==
    /\ (Returned /\ page.fetch = "ok" /\ page.document = "ok") => Extracted
    /\ Extracted =>
          \A k \in DOMAIN result.called :
              result.outputs[k] = expected_output(page, result.called[k])

\* the select scan raised after it collected a variant, and the output of
\* the options strategy holds that variant and those of the radio inputs
SelectErrorThenRadios ==
    /\ Extracted
    /\ ScanRaised(select_steps(page))
    /\ collected_before_error(select_steps(page)) # <<>>
    /\ collected_before_error(radio_ul_steps(page)) # <<>>
    /\ Len(result.outputs[1]) =
          Len(collected_before_error(select_steps(page)))
            + Len(collected_before_error(radio_ul_steps(page)))

\* step (c) as stated: the base price found on the page plus the delta of
\* the option text, or the base price when the text has no parenthesis
base_plus_delta(option_text, base) ==
    IF ~base.found THEN NoPrice
    ELSE IF SearchDelta(option_text).found
    THEN FormatPrice(base.cents
                        + float(StripCommas(SearchDelta(option_text).group)).cents)
    ELSE IF ~Contains(option_text, <<"(">>) THEN FormatPrice(base.cents)
    ELSE NoPrice

\* the result of the first of the steps (a), (b), (c), (d) that yields a price
first_yielding_step(option, option_text, base) ==
    Either(price_from_api(option),
           Either(price_from_data(option.data_price).price,
                  Either(base_plus_delta(option_text, base),
                         price_from_text(option_text))))

\* the variant a step of the select scan appended has the stated price and tag
resolved_as_stated(option, step, base) ==
    (~step.raised /\ step.variants # <<>>) =>
        /\ step.variants[1].price =
              first_yielding_step(option, Strip(option.text), base)
        /\ step.variants[1].source =
              IF is_variation_url(option.value) THEN "dynamic_api" ELSE "option_data"

\* C17: the price of a size-bearing select option is the result of the first
\* of these steps that yields one: (a) the variation API when the value is a
\* Product-Variation path, (b) data-price, (c) the base price plus the
\* "(+$D.DD)" delta, or the base price when the text has no parenthesis,
\* (d) a bare "$" amount of the text; it is absent when none yields one.  The
\* variant is tagged dynamic_api when step (a) was taken, option_data
\* otherwise.
OptionPriceFromFirstYieldingStep ==
    Extracted =>
        \A k \in DOMAIN page.options :
            resolved_as_stated(page.options[k], select_steps(page)[k],
                               base_price(page.base_price_elem))

-----------------------------------------------------------------------------
(* Properties of repeated crawls on one scraper (SpecReuse) *)

\* C12: the sequence one call of scrape_all_products returns holds only
\* products extracted during that call, also when the call is a later one
\* on the same scraper: every product returned is the product of a visit of
\* this call that was kept, and there are no more of them than such visits.
ReturnsOnlyThisCallsProducts ==
    pc = "done" =>
        /\ Len(returned) <= Len(KeptVisits)
        /\ \A k \in DOMAIN returned :
              \E j \in DOMAIN KeptVisits : returned[k] = KeptVisits[j].product

-----------------------------------------------------------------------------
(* The HTTP endpoints /scrape and /scrape_async and run_scrape (SpecApi)   *)
(*                                                                         *)
(* /scrape is a plain function: the server runs each request to it in a    *)
(* worker thread.  /scrape_async is a coroutine; the task it hands to      *)
(* background_tasks.add_task is run, in a worker thread, after the         *)
(* response of the request was sent.  Threads interleave at every read and *)
(* write of scraping_status, so each of them is a step.  A run_scrape      *)
(* execution is named by the request that caused it and its result payload *)
(* by the execution; the crawl inside it works on a scraper of its own and *)
(* shares nothing with the other executions.  The state of an execution    *)
(* is "none", "queued" (add_task), "called" (run_scrape was called),       *)
(* "crawling" (is_running was set), "stored" (last_full_result was         *)
(* written) or "finished".                                                 *)

\* the answers of the endpoints
Rejected == [status |-> "rejected", run |-> 0]

Running == [status |-> "running", run |-> 0]

Accepted == [status |-> "accepted", run |-> 0]

Completed(run) == [status |-> "completed", run |-> run]

\* request r gets its response
respond(r, response) ==
    requests' = [requests EXCEPT ![r].position = "responded",
                                 ![r].response = response,
                                 ![r].run_at_response = runs[r]]

\* scrape_sync up to the call of run_scrape: 409 when is_running is set
PostScrape(r) ==
    /\ requests[r].position = "new"
    /\ IF scraping_status.is_running
       THEN /\ requests' = [requests EXCEPT ![r].endpoint = "scrape",
                                            ![r].position = "responded",
                                            ![r].response = Rejected]
            /\ UNCHANGED runs
       ELSE /\ requests' = [requests EXCEPT ![r].endpoint = "scrape",
                                            ![r].position = "in_run"]
            /\ runs' = [runs EXCEPT ![r] = "called"]
    /\ UNCHANGED <<scraping_status, pageVars, crawlVars>>

\* scrape_async up to its first return or wait loop: the test of is_running
\* and, when it is not set, add_task
PostScrapeAsync(r, wait) ==
    /\ requests[r].position = "new"
    /\ runs' = [runs EXCEPT ![r] =
                    IF scraping_status.is_running THEN "none" ELSE "queued"]
    /\ requests' = [requests EXCEPT
            ![r].endpoint = "scrape_async",
            ![r].wait = wait,
            ![r].position = IF wait THEN "polling" ELSE "responded",
            ![r].response = IF wait THEN @
                            ELSE IF scraping_status.is_running THEN Running
                            ELSE Accepted,
            ![r].run_at_response = IF wait THEN @ ELSE runs'[r]]
    /\ UNCHANGED <<scraping_status, pageVars, crawlVars>>

\* time.time() reaches the deadline of the wait loop of request r
DeadlinePasses(r) ==
    /\ requests[r].position = "polling"
    /\ ~requests[r].expired
    /\ requests' = [requests EXCEPT ![r].expired = TRUE]
    /\ UNCHANGED <<scraping_status, runs, pageVars, crawlVars>>

\* what scrape_async returns after its wait loop
answer_after_wait(status) ==
    IF ~status.is_running /\ status.last_full_result # 0
    THEN Completed(status.last_full_result)
    ELSE Running

\* the wait loop of request r ends (is_running is not set, or the deadline
\* has passed) and the request is answered
LeaveWaitLoop(r) ==
    /\ requests[r].position = "polling"
    /\ ~scraping_status.is_running \/ requests[r].expired
    /\ respond(r, answer_after_wait(scraping_status))
    /\ UNCHANGED <<scraping_status, runs, pageVars, crawlVars>>

\* run_scrape sets is_running: the execution of a /scrape request, or the
\* background task of a /scrape_async request whose response was sent
RunBegins(r) ==
    /\ \/ runs[r] = "called"
       \/ runs[r] = "queued" /\ requests[r].position = "responded"
    /\ scraping_status' = [scraping_status EXCEPT !.is_running = TRUE]
    /\ runs' = [runs EXCEPT ![r] = "crawling"]
    /\ UNCHANGED <<requests, pageVars, crawlVars>>

\* the crawl of the execution returned and its result is stored
RunStores(r) ==
    /\ runs[r] = "crawling"
    /\ scraping_status' = [scraping_status EXCEPT !.last_full_result = r]
    /\ runs' = [runs EXCEPT ![r] = "stored"]
    /\ UNCHANGED <<requests, pageVars, crawlVars>>

\* finally: is_running is cleared; a /scrape request returns the result
RunEnds(r) ==
    /\ runs[r] = "stored"
    /\ scraping_status' = [scraping_status EXCEPT !.is_running = FALSE]
    /\ runs' = [runs EXCEPT ![r] = "finished"]
    /\ IF requests[r].endpoint = "scrape"
       THEN requests' = [requests EXCEPT ![r].position = "responded",
                                         ![r].response = Completed(r),
                                         ![r].run_at_response = "finished"]
       ELSE UNCHANGED requests
    /\ UNCHANGED <<pageVars, crawlVars>>

ApiInit ==
    /\ pc = "start"
    /\ limit = [is_none |-> TRUE, value |-> 0]
    /\ all_links = <<>>
    /\ link_raised = FALSE
    /\ link_set = {}
    /\ list_failed = FALSE
    /\ classified = <<>>
    /\ product_links = <<>>
    /\ visits = <<>>
    /\ products = <<>>
    /\ returned = <<>>
    /\ page = BlankPage
    /\ result = NoCall
    /\ calls = 1
    /\ ApiLoaded

ApiNext ==
    \E r \in Reqs :
        \/ PostScrape(r)
        \/ \E wait \in BOOLEAN : PostScrapeAsync(r, wait)
        \/ DeadlinePasses(r)
        \/ LeaveWaitLoop(r)
        \/ RunBegins(r)
        \/ RunStores(r)
        \/ RunEnds(r)

SpecApi == ApiInit /\ [][ApiNext]_vars

-----------------------------------------------------------------------------
(* Properties of the endpoints (SpecApi) *)

\* request r was a /scrape_async with wait=true that found is_running unset
\* and queued a scrape, and it has its response
WaitedForOwnScrape(r) ==
    /\ requests[r].endpoint = "scrape_async"
    /\ requests[r].wait
    /\ requests[r].position = "responded"
    /\ runs[r] # "none"

\* C16: a /scrape_async request with wait=true made while no scrape is
\* running does not respond before the scrape it queued has completed or
\* the timeout has elapsed; a full result payload in its response is the
\* result of the scrape it queued, never the stored result of an earlier
\* run; otherwise the response is {'status': 'running'}.
WaitReturnsOwnScrape ==
    \A r \in Reqs :
        WaitedForOwnScrape(r) =>
            /\ requests[r].run_at_response = "finished" \/ requests[r].expired
            /\ requests[r].response \in {Completed(r), Running}

\* the run_scrape executions in progress: is_running was set by them and
\* their finally clause has not run
InProgress == {r \in Reqs : runs[r] \in {"crawling", "stored"}}

\* C18: under any interleaving of requests to /scrape and /scrape_async at
\* most one run_scrape execution is in progress, and is_running is set
\* whenever one is in progress: no request starts a second crawl while one
\* is in progress.
OneScrapeAtATime ==
    /\ Cardinality(InProgress) <= 1
    /\ InProgress # {} => scraping_status.is_running

====
